---------------------------- MODULE Spec2Model ----------------------------
(***************************************************************************)
(* Co-occurrence graph construction in the IWAC dashboard scripts.         *)
(*                                                                         *)
(* Five scripts are modelled, each as a batch run over its input:          *)
(*   bn  scripts/spatial/build_networks.py          (global entity graph)  *)
(*   sn  scripts/spatial/build_spatial_networks.py  (location graph)       *)
(*   sc  scripts/generate_references_subject_cooccurrence.py               *)
(*   tn  scripts/generate_topic_network.py          (topic-article graph)  *)
(*   wm  scripts/generate_cooccurrence.py           (term-window matrix)   *)
(*                                                                         *)
(* A behaviour is one run of one script.  `script` names it, `pc` is the   *)
(* position of the run, `args` the parsed command line, `input` the loaded *)
(* files, `index` the per-document index the script builds, `acc` the pair *)
(* accumulator, `pos` the loop position of the accumulation loop, and      *)
(* `nodes`, `edges`, `meta` the graph being built; `output` is what the    *)
(* run has written (for wm, `meta` holds the matrix data).                 *)
(*                                                                         *)
(* Representation.  A Python dict is a sequence of entries in insertion    *)
(* order; a Python set is a TLA+ set, and every iteration over a set picks *)
(* an arbitrary order (string hashing is randomised per process).  A float *)
(* that the code rounds to d decimals is the integer numerator over 10^d;  *)
(* an unrounded quotient is kept as a fraction <<num, den>>.               *)
(***************************************************************************)
EXTENDS Integers, Sequences, FiniteSets, TLC

VARIABLES script, pc, args, input, index, acc, pos, nodes, edges, meta, output

vars == <<script, pc, args, input, index, acc, pos, nodes, edges, meta, output>>

---------------------------------------------------------------------------
(* Bounds of the model *)

\* article ids are 1..MaxArticles
MaxArticles == 2
\* --weight-min ranges over 1..MaxWeightMin
MaxWeightMin == 3

---------------------------------------------------------------------------
(* Generic helpers: sequences, orders, rounding *)

Range(s) == { s[i] : i \in 1..Len(s) }

\* all the orders in which a set can be iterated
SetOrders(S) ==
  { s \in [1..Cardinality(S) -> S] : \A x \in S : \E i \in 1..Cardinality(S) : s[i] = x }

RECURSIVE SumSeq(_)
SumSeq(s) == IF s = <<>> THEN 0 ELSE Head(s) + SumSeq(Tail(s))

RECURSIVE MaxSeq(_)
MaxSeq(s) ==
  IF Len(s) = 1 THEN s[1]
  ELSE LET m == MaxSeq(Tail(s)) IN IF Head(s) >= m THEN Head(s) ELSE m

RECURSIVE MinSeq(_)
MinSeq(s) ==
  IF Len(s) = 1 THEN s[1]
  ELSE LET m == MinSeq(Tail(s)) IN IF Head(s) <= m THEN Head(s) ELSE m

\* lexicographic comparison of two strings given as sequences of character codes
RECURSIVE LexLess(_, _)
LexLess(s, t) ==
  IF t = <<>> THEN FALSE
  ELSE IF s = <<>> THEN TRUE
  ELSE IF Head(s) # Head(t) THEN Head(s) < Head(t)
  ELSE LexLess(Tail(s), Tail(t))

\* str(n) for a natural number below 100, as its sequence of digits
Digits(n) == IF n < 10 THEN <<n>> ELSE <<n \div 10, n % 10>>

\* round(num / den) to the nearest integer, ties to even (Python's round)
RoundHalfEven(num, den) ==
  LET q == num \div den
      r == num % den
  IN  IF 2 * r < den THEN q
      ELSE IF 2 * r > den THEN q + 1
      ELSE IF q % 2 = 0 THEN q ELSE q + 1

\* round(num / den, 6), round(num / den, 4), round(num / den, 3) as numerators
Round6(num, den) == RoundHalfEven(num * 1000000, den)
Round3(num, den) == RoundHalfEven(num * 1000, den)

\* the clock read by datetime.utcnow() / datetime.now()
Clock == {"t1", "t2"}

\* an absent dict key / missing optional value is the empty sequence, a present
\* one the one-element sequence
Absent == <<>>
Present(x) == <<x>>

---------------------------------------------------------------------------
(* build_networks.py *)

\* alphabetical rank of the type names, as Python compares the strings
TypeRank(t) ==
  CASE t = "event" -> 1
    [] t = "location" -> 2
    [] t = "organization" -> 3
    [] t = "person" -> 4
    [] t = "subject" -> 5

\* node_id = f"{type_key}:{ent_id}"
NodeId(type_key, ent_id) == [type |-> type_key, id |-> ent_id]

\* n1 < n2 on the strings "type:id": the type names first (none is a prefix of
\* another), then the decimal digits of the id, character by character
NodeIdLess(n1, n2) ==
  IF n1.type # n2.type THEN TypeRank(n1.type) < TypeRank(n2.type)
  ELSE LexLess(Digits(n1.id), Digits(n2.id))

NodeIdLeq(n1, n2) == n1 = n2 \/ NodeIdLess(n1, n2)

DEFAULT_TYPE_PAIRS ==
  << <<"person", "organization">>, <<"event", "location">>, <<"person", "event">>,
     <<"organization", "event">>, <<"subject", "event">> >>

\* --pairs a-b,c-d : the items of the comma-separated list; an item without a
\* dash is dropped, an empty argument keeps the defaults
ParsePairs(pairs) ==
  IF pairs = <<>> THEN DEFAULT_TYPE_PAIRS
  ELSE LET keep == SelectSeq(pairs, LAMBDA x : x.dash)
       IN  [i \in 1..Len(keep) |-> <<keep[i].left, keep[i].right>>]

TYPE_PAIRS == ParsePairs(args.pairs)
WEIGHT_MIN == args.weight_min
TOP_LABELS == args.top_labels

\* count = int(ent.get('articleCount', len(relatedArticleIds)) or 0)
EntityCount(ent) ==
  IF ent.articleCount = Absent THEN Len(ent.relatedArticleIds) ELSE ent.articleCount[1]

\* dict lookup in a dict kept as a sequence of [key, ...] entries: 0 when absent
KeyIndex(d, k) ==
  IF \E i \in 1..Len(d) : d[i].key = k
  THEN CHOOSE i \in 1..Len(d) : d[i].key = k
  ELSE 0

\* bucket = article_to_entities.setdefault(aid, {});
\* bucket.setdefault(type_key, set()).add(node_id)
BucketAdd(a2e, aid, type_key, node_id) ==
  LET i == KeyIndex(a2e, aid)
      a2 == IF i = 0 THEN Append(a2e, [key |-> aid, by_type |-> <<>>]) ELSE a2e
      k == IF i = 0 THEN Len(a2) ELSE i
      bt == a2[k].by_type
      j == KeyIndex(bt, type_key)
      bt2 == IF j = 0 THEN Append(bt, [key |-> type_key, nodeset |-> {node_id}])
             ELSE [bt EXCEPT ![j].nodeset = @ \cup {node_id}]
  IN  [a2 EXCEPT ![k].by_type = bt2]

\* for aid in ent.get('relatedArticleIds', []) or []: ... (Len(a2e) >= 0 is always
\* true: it has a2e evaluated at every iteration, as the loop does)
RECURSIVE AddRelated(_, _, _, _)
AddRelated(a2e, aids, type_key, node_id) ==
  IF Len(a2e) >= 0 /\ aids = <<>> THEN a2e
  ELSE AddRelated(BucketAdd(a2e, Head(aids), type_key, node_id), Tail(aids),
                  type_key, node_id)

\* build_article_index: the state is [a2e, node_info]
RECURSIVE build_article_index(_, _, _)
build_article_index(entities, type_key, st) ==
  IF entities = <<>> THEN st
  ELSE LET ent == Head(entities)
           node_id == NodeId(type_key, ent.id)
           info == [id |-> node_id, type |-> type_key, label |-> ent.name,
                    count |-> EntityCount(ent)]
           ni == [n \in DOMAIN st.node_info \cup {node_id} |->
                    IF n = node_id THEN info ELSE st.node_info[n]]
       IN  build_article_index(Tail(entities), type_key,
             [a2e |-> AddRelated(st.a2e, ent.relatedArticleIds, type_key, node_id),
              node_info |-> ni])

EmptyIndex == [a2e |-> <<>>, node_info |-> <<>>]

BuildAllIndexes(inp) ==
  build_article_index(inp.locations, "location",
    build_article_index(inp.subjects, "subject",
      build_article_index(inp.events, "event",
        build_article_index(inp.organizations, "organization",
          build_article_index(inp.persons, "person", EmptyIndex)))))

\* index of the accumulator record with this key, 0 when absent
AccIndex(a, s, t) ==
  IF \E i \in 1..Len(a) : a[i].source = s /\ a[i].target = t
  THEN CHOOSE i \in 1..Len(a) : a[i].source = s /\ a[i].target = t
  ELSE 0

\* a slip that compares the article id with the first element of the list
Contribute_FirstCheck(a, aid, s, t, typ) ==
  LET i == AccIndex(a, s, t)
  IN  IF i = 0
      THEN Append(a, [source |-> s, target |-> t, type |-> typ, weight |-> 1,
                      articleIds |-> <<aid>>])
      ELSE LET ids == a[i].articleIds
               ids2 == IF ids = <<>> \/ ids[1] # aid THEN Append(ids, aid) ELSE ids
           IN  [a EXCEPT ![i].weight = @ + 1, ![i].articleIds = ids2]

\* a slip that appends the article id at every contribution
Contribute_AlwaysAppend(a, aid, s, t, typ) ==
  LET i == AccIndex(a, s, t)
  IN  IF i = 0
      THEN Append(a, [source |-> s, target |-> t, type |-> typ, weight |-> 1,
                      articleIds |-> <<aid>>])
      ELSE [a EXCEPT ![i].weight = @ + 1, ![i].articleIds = Append(@, aid)]

\* one contribution of article aid to the pair (s, t): the body of both inner loops
Contribute(a, aid, s, t, typ) ==
  LET i == AccIndex(a, s, t)
  IN  IF i = 0
      THEN Append(a, [source |-> s, target |-> t, type |-> typ, weight |-> 1,
                      articleIds |-> <<aid>>])
      ELSE LET ids == a[i].articleIds
               ids2 == IF ids = <<>> \/ ids[Len(ids)] # aid THEN Append(ids, aid) ELSE ids
           IN  [a EXCEPT ![i].weight = @ + 1, ![i].articleIds = ids2]

\* the pairs (n1, n2) of the nested loops over a_nodes and b_nodes, in loop order
RECURSIVE LoopPairs(_, _)
LoopPairs(a_order, b_order) ==
  IF a_order = <<>> THEN <<>>
  ELSE [j \in 1..Len(b_order) |-> <<Head(a_order), b_order[j]>>]
       \o LoopPairs(Tail(a_order), b_order)

\* a slip that keeps the pair in the order of encounter
CanonicalPair_NoSwap(n1, n2) == <<n1, n2>>

\* s, t = (n1, n2) if n1 < n2 else (n2, n1)
CanonicalPair(n1, n2) == IF NodeIdLess(n1, n2) THEN <<n1, n2>> ELSE <<n2, n1>>

RECURSIVE AccumulatePairs(_, _, _, _, _)
AccumulatePairs(a, aid, t1, t2, pairs) ==
  IF pairs = <<>> THEN a
  ELSE LET key == CanonicalPair(Head(pairs)[1], Head(pairs)[2])
       IN  AccumulatePairs(Contribute(a, aid, key[1], key[2], <<t1, t2>>), aid, t1, t2,
                           Tail(pairs))

\* accumulate_edge(aid, t1, t2, a_nodes, b_nodes, acc); the sets are iterated in
\* the orders a_order and b_order
accumulate_edge(aid, t1, t2, a_order, b_order, a) ==
  AccumulatePairs(a, aid, t1, t2, LoopPairs(a_order, b_order))

\* by_type.get(t): the node set, or the empty set for a missing type
ByTypeGet(by_type, t) ==
  LET j == KeyIndex(by_type, t) IN IF j = 0 THEN {} ELSE by_type[j].nodeset

\* for t1, t2 in TYPE_PAIRS: ... if a and b: accumulate_edge(...)
\* ord[t] is the order in which this run iterates the node set of type t
RECURSIVE CrossTypeLoop(_, _, _, _, _)
CrossTypeLoop(a, aid, by_type, pairs, ord) ==
  IF pairs = <<>> THEN a
  ELSE LET t1 == Head(pairs)[1]
           t2 == Head(pairs)[2]
           an == ByTypeGet(by_type, t1)
           bn == ByTypeGet(by_type, t2)
           a2 == IF an # {} /\ bn # {}
                 THEN accumulate_edge(aid, t1, t2, ord[t1], ord[t2], a)
                 ELSE a
       IN  CrossTypeLoop(a2, aid, by_type, Tail(pairs), ord)

\* sorted(nodeset)
RECURSIVE SortedNodes(_)
SortedNodes(S) ==
  IF S = {} THEN <<>>
  ELSE LET m == CHOOSE x \in S : \A y \in S : NodeIdLeq(x, y)
       IN  <<m>> \o SortedNodes(S \ {m})

\* all (i, j), i < j, of range(len(lst)) x range(i + 1, len(lst)), in loop order
RECURSIVE IndexPairs(_, _)
IndexPairs(i, n) ==
  IF i > n THEN <<>>
  ELSE [k \in 1..(n - i) |-> <<i, i + k>>] \o IndexPairs(i + 1, n)

RECURSIVE SameTypePairs(_, _, _, _, _)
SameTypePairs(a, aid, t, lst, ips) ==
  IF ips = <<>> THEN a
  ELSE SameTypePairs(Contribute(a, aid, lst[Head(ips)[1]], lst[Head(ips)[2]], <<t, t>>),
                     aid, t, lst, Tail(ips))

\* if ARGS.no_cross_only: for t, nodeset in by_type.items(): ...
RECURSIVE SameTypeLoop(_, _, _)
SameTypeLoop(a, aid, by_type) ==
  IF by_type = <<>> THEN a
  ELSE LET t == Head(by_type).key
           nodeset == Head(by_type).nodeset
           lst == SortedNodes(nodeset)
           a2 == IF Cardinality(nodeset) < 2 THEN a
                 ELSE SameTypePairs(a, aid, t, lst, IndexPairs(1, Len(lst)))
       IN  SameTypeLoop(a2, aid, Tail(by_type))

\* the body of `for aid, by_type in article_to_entities.items()` for one article
AccumulateArticleBN(a, entry, ord) ==
  LET a1 == CrossTypeLoop(a, entry.key, entry.by_type, TYPE_PAIRS, ord)
  IN  IF args.no_cross_only THEN SameTypeLoop(a1, entry.key, entry.by_type) ELSE a1

\* indexes of keys ordered by key descending, equal keys in their original order
\* (list.sort(key=..., reverse=True) is stable)
RECURSIVE PickOrderDesc(_, _)
PickOrderDesc(keys, remaining) ==
  IF remaining = {} THEN <<>>
  ELSE LET m == CHOOSE i \in remaining :
                  \A j \in remaining : keys[i] > keys[j] \/ (keys[i] = keys[j] /\ i <= j)
       IN  <<m>> \o PickOrderDesc(keys, remaining \ {m})

SortDescBy(items, keys) ==
  LET p == PickOrderDesc(keys, 1..Len(items)) IN [i \in 1..Len(items) |-> items[p[i]]]

\* a slip that keeps the pairs one below the minimum
PruneBN_OffByOne(a) ==
  LET kept == SelectSeq(a, LAMBDA e : e.weight >= WEIGHT_MIN - 1)
  IN  SortDescBy(kept, [i \in 1..Len(kept) |-> kept[i].weight])

\* edges = [e for e in edge_acc.values() if e['weight'] >= WEIGHT_MIN]; edges.sort(...)
PruneBN(a) ==
  LET kept == SelectSeq(a, LAMBDA e : e.weight >= WEIGHT_MIN)
  IN  SortDescBy(kept, [i \in 1..Len(kept) |-> kept[i].weight])

\* used_ids: the endpoints of the retained edges
UsedIds(es) == { es[i].source : i \in 1..Len(es) } \cup { es[i].target : i \in 1..Len(es) }

\* degree[e['source']] += 1; degree[e['target']] += 1 over the retained edges
RECURSIVE DegreeOf(_, _)
DegreeOf(es, nid) ==
  IF es = <<>> THEN 0
  ELSE (IF Head(es).source = nid THEN 1 ELSE 0) + (IF Head(es).target = nid THEN 1 ELSE 0)
       + DegreeOf(Tail(es), nid)

\* strength[e['source']] += e['weight']; strength[e['target']] += e['weight']
RECURSIVE StrengthOf(_, _)
StrengthOf(es, nid) ==
  IF es = <<>> THEN 0
  ELSE (IF Head(es).source = nid THEN Head(es).weight ELSE 0)
       + (IF Head(es).target = nid THEN Head(es).weight ELSE 0)
       + StrengthOf(Tail(es), nid)

Weights(es) == [i \in 1..Len(es) |-> es[i].weight]

\* max_w / min_w over the retained edges, 1 when there is none
MaxWBN(es) == IF es # <<>> THEN MaxSeq(Weights(es)) ELSE 1
MinWBN(es) == IF es # <<>> THEN MinSeq(Weights(es)) ELSE 1

\* min-max scaling in the place of the division by the maximum
WeightNormBN_MinMax(w, max_w, min_w) ==
  IF max_w > min_w THEN <<Round6(w - min_w, max_w - min_w), 1000000>> ELSE <<1, 1>>

\* e['weightNorm'] = round(e['weight'] / max_w, 6) if max_w else 0, in millionths
WeightNormBN(w, max_w, min_w) ==
  IF max_w # 0 THEN <<Round6(w, max_w), 1000000>> ELSE <<0, 1>>

\* the label-priority score of build_networks: degree * 3 + count
ScoreBN(n) == n.degree * 3 + n.count

\* nodes with degree and strength, sorted by score, labelPriority = rank
NodesBN(es, node_info, order) ==
  LET base == [i \in 1..Len(order) |->
                 [id |-> order[i], type |-> node_info[order[i]].type,
                  label |-> node_info[order[i]].label,
                  count |-> node_info[order[i]].count,
                  degree |-> DegreeOf(es, order[i]),
                  strength |-> StrengthOf(es, order[i])]]
      srt == SortDescBy(base, [i \in 1..Len(base) |-> ScoreBN(base[i])])
  IN  [i \in 1..Len(srt) |->
         [id |-> srt[i].id, type |-> srt[i].type, label |-> srt[i].label,
          count |-> srt[i].count, degree |-> srt[i].degree,
          strength |-> srt[i].strength, labelPriority |-> i]]

EdgesBN(es) ==
  [i \in 1..Len(es) |->
     [source |-> es[i].source, target |-> es[i].target, type |-> es[i].type,
      weight |-> es[i].weight, articleIds |-> es[i].articleIds,
      weightNorm |-> WeightNormBN(es[i].weight, MaxWBN(es), MinWBN(es))]]

\* min / max / round(fmean, 3) of a list of values, `or [0]` when it is empty
StatsBN(vals) ==
  LET v == IF vals = <<>> THEN <<0>> ELSE vals
  IN  [min |-> MinSeq(v), max |-> MaxSeq(v), mean |-> Round3(SumSeq(v), Len(v))]

MetaBN(ns, es, now) ==
  [generatedAt |-> now,
   totalNodes |-> Len(ns),
   totalEdges |-> Len(es),
   supportedTypes |-> <<"person", "organization", "event", "subject", "location">>,
   weightMinConfigured |-> WEIGHT_MIN,
   weightMinActual |-> MinWBN(es),
   weightMax |-> MaxWBN(es),
   degree |-> StatsBN([i \in 1..Len(ns) |-> ns[i].degree]),
   strength |-> StatsBN([i \in 1..Len(ns) |-> ns[i].strength]),
   topLabelCount |-> TOP_LABELS,
   typePairs |-> TYPE_PAIRS,
   labelPriorityTop |-> [i \in 1..(IF Len(ns) < TOP_LABELS THEN Len(ns) ELSE TOP_LABELS)
                           |-> ns[i].id]]

\* ascending list of the members of a set of numbers
RECURSIVE AscSeq(_)
AscSeq(S) ==
  IF S = {} THEN <<>>
  ELSE LET m == CHOOSE x \in S : \A y \in S : x <= y IN <<m>> \o AscSeq(S \ {m})

Articles == 1..MaxArticles

RelatedLists == { AscSeq(S) : S \in SUBSET Articles }

Entity(id, name, related, count) ==
  [id |-> id, name |-> name, relatedArticleIds |-> related, articleCount |-> count]

\* the values of --pairs tried: absent, both orders of one pair, one category
\* twice, and an argument without any dash
PairItem(l, r) == [dash |-> TRUE, left |-> l, right |-> r]
PairsArgs ==
  { <<>>,
    <<PairItem("person", "organization"), PairItem("organization", "person")>>,
    <<PairItem("person", "person")>>,
    <<[dash |-> FALSE, left |-> "person", right |-> ""]>> }

Types == {"person", "organization", "event", "subject", "location"}

\* nothing written yet / the result file has been written with nodes, edges, meta
NoOutput == "none"
Written == "written"

InitBN ==
  /\ script = "bn"
  /\ pc = "index"
  /\ args \in [weight_min : 1..MaxWeightMin, top_labels : {2}, pairs : PairsArgs,
               no_cross_only : BOOLEAN]
  /\ \E r1 \in RelatedLists, r2 \in RelatedLists, r3 \in RelatedLists :
       input = [persons |-> <<Entity(2, "P2", r1, Absent), Entity(10, "P10", r2, Absent)>>,
                organizations |-> <<Entity(1, "O1", r3, Present(1))>>,
                events |-> <<>>, subjects |-> <<>>, locations |-> <<>>]
  /\ index = EmptyIndex
  /\ acc = <<>>
  /\ pos = 1
  /\ nodes = <<>>
  /\ edges = <<>>
  /\ meta = <<>>
  /\ output = NoOutput

\* lines 118-126: the five build_article_index calls
BN_BuildArticleIndex ==
  /\ script = "bn" /\ pc = "index"
  /\ index' = BuildAllIndexes(input)
  /\ pc' = "accumulate"
  /\ UNCHANGED <<script, args, input, acc, pos, nodes, edges, meta, output>>

\* lines 151-181: one iteration of the loop over article_to_entities
BN_AccumulateArticle ==
  /\ script = "bn" /\ pc = "accumulate"
  /\ pos <= Len(index.a2e)
  /\ LET entry == index.a2e[pos]
         present == UNION { ByTypeGet(entry.by_type, t) : t \in Types }
     IN  \E o \in SetOrders(present) :
           acc' = AccumulateArticleBN(acc, entry,
                    [t \in Types |-> SelectSeq(o, LAMBDA n : n.type = t)])
  /\ pos' = pos + 1
  /\ UNCHANGED <<script, pc, args, input, index, nodes, edges, meta, output>>

\* lines 183-253: prune, node subset, degree/strength, weightNorm, labelPriority, meta
BN_Build ==
  /\ script = "bn" /\ pc = "accumulate"
  /\ pos > Len(index.a2e)
  /\ LET es == PruneBN(acc)
     IN  \E order \in SetOrders(UsedIds(es)), now \in Clock :
           LET ns == NodesBN(es, index.node_info, order)
               ed == EdgesBN(es)
           IN  /\ nodes' = ns
               /\ edges' = ed
               /\ meta' = MetaBN(ns, ed, now)
  /\ pc' = "serialize"
  /\ UNCHANGED <<script, args, input, index, acc, pos, output>>

\* line 255: global.json is written
BN_WriteOutput ==
  /\ script = "bn" /\ pc = "serialize"
  /\ output' = Written
  /\ pc' = "done"
  /\ UNCHANGED <<script, args, input, index, acc, pos, nodes, edges, meta>>

NextBN == BN_BuildArticleIndex \/ BN_AccumulateArticle \/ BN_Build \/ BN_WriteOutput

SpecBN == InitBN /\ [][NextBN]_vars

---------------------------------------------------------------------------
(* build_spatial_networks.py *)

\* a spatial field holds at most MaxSpatial pipe-separated names
MaxSpatial == 2

\* str.strip() and str.lower() on the names that occur in the model
Strip(x) == CASE x = "lome " -> "lome" [] x = "Islam " -> "Islam" [] x = " " -> ""
              [] OTHER -> x
Lower(x) == CASE x = "Lome" -> "lome" [] x = "Accra" -> "accra" [] x = "Kara" -> "kara"
              [] x = "Islam" -> "islam" [] x = "Radical," -> "radical," [] OTHER -> x

Location(id, name, coordinates, related) ==
  [id |-> id, name |-> name, coordinates |-> coordinates, relatedArticleIds |-> related,
   articleCount |-> Absent]

\* lines 85-103: the location has a name and a [lat, lng] pair within range
ValidLocation(location) ==
  /\ Strip(location.name) # ""
  /\ location.coordinates # Absent
  /\ LET lat == location.coordinates[1][1]
         lng == location.coordinates[1][2]
     IN  /\ ~((IF lat < 0 THEN -lat ELSE lat) > 90)
         /\ ~((IF lng < 0 THEN -lng ELSE lng) > 180)

\* lines 105-115: the node of a location
LocationNode(location) ==
  [id |-> NodeId("location", location.id),
   type |-> "location",
   label |-> Strip(location.name),
   count |-> EntityCount(location),
   coordinates |-> location.coordinates[1]]

\* lines 82-118: nodes of the locations with valid coordinates, in file order
RECURSIVE LocationNodes(_)
LocationNodes(locations) ==
  IF locations = <<>> THEN <<>>
  ELSE (IF ValidLocation(Head(locations)) THEN <<LocationNode(Head(locations))>> ELSE <<>>)
       \o LocationNodes(Tail(locations))

\* node_by_name = {node['label'].lower(): node for node in nodes}: the last node
\* of a name wins; 0 when the name is unknown
NodeByName(ns, name) ==
  IF \E i \in 1..Len(ns) : Lower(ns[i].label) = name
  THEN LET i == CHOOSE i \in 1..Len(ns) :
                  /\ Lower(ns[i].label) = name
                  /\ \A j \in 1..Len(ns) : Lower(ns[j].label) = name => j <= i
       IN  i
  ELSE 0

\* lines 133-142: the node ids of the names of one spatial field, in field order
RECURSIVE ArticleLocations(_, _)
ArticleLocations(names, ns) ==
  IF names = <<>> THEN <<>>
  ELSE LET loc_name == Strip(Head(names))
           k == IF loc_name = "" THEN 0 ELSE NodeByName(ns, Lower(loc_name))
       IN  (IF k = 0 THEN <<>> ELSE <<ns[k].id>>) \o ArticleLocations(Tail(names), ns)

\* article_to_locations[article_id] = article_locations: a later article with the
\* same id replaces the earlier value and keeps its place
DictSet(d, k, v) ==
  LET i == KeyIndex(d, k)
  IN  IF i = 0 THEN Append(d, [key |-> k, value |-> v]) ELSE [d EXCEPT ![i].value = v]

\* lines 126-146
RECURSIVE ArticleToLocations(_, _, _)
ArticleToLocations(articles, ns, a2l) ==
  IF articles = <<>> THEN a2l
  ELSE LET article == Head(articles)
           locs == ArticleLocations(article.spatial, ns)
           a2 == IF article.spatial # <<>> /\ Len(locs) > 1
                 THEN DictSet(a2l, article.id, locs)
                 ELSE a2l
       IN  ArticleToLocations(Tail(articles), ns, a2)

\* lines 157-168: one contribution to the pair {loc1, loc2}
ContributeSN(a, article_id, loc1, loc2) ==
  LET s == IF NodeIdLess(loc2, loc1) THEN loc2 ELSE loc1
      t == IF NodeIdLess(loc2, loc1) THEN loc1 ELSE loc2
      i == AccIndex(a, s, t)
      a1 == IF i = 0
            THEN Append(a, [source |-> s, target |-> t, weight |-> 0, articleIds |-> <<>>])
            ELSE a
      k == IF i = 0 THEN Len(a1) ELSE i
  IN  [a1 EXCEPT ![k].weight = @ + 1, ![k].articleIds = Append(@, article_id)]

RECURSIVE AccumulateSN(_, _, _, _)
AccumulateSN(a, article_id, location_ids, ips) ==
  IF ips = <<>> THEN a
  ELSE AccumulateSN(ContributeSN(a, article_id, location_ids[Head(ips)[1]],
                                 location_ids[Head(ips)[2]]),
                    article_id, location_ids, Tail(ips))

\* lines 171-174
PruneSN(a) == SelectSeq(a, LAMBDA e : e.weight >= args.weight_min)

\* lines 179-199: metrics of all nodes, then the connected ones
NodesSN(ns, es) ==
  LET withMetrics == [i \in 1..Len(ns) |->
                        [id |-> ns[i].id, type |-> ns[i].type, label |-> ns[i].label,
                         count |-> ns[i].count, coordinates |-> ns[i].coordinates,
                         degree |-> DegreeOf(es, ns[i].id),
                         strength |-> StrengthOf(es, ns[i].id)]]
  IN  SelectSeq(withMetrics, LAMBDA n : n.id \in UsedIds(es))

\* edge['weightNorm'] = edge['weight'] / max_weight if max_weight > 0 else 0,
\* the quotient as the fraction <<num, den>>
WeightNormSN(w, max_weight, min_weight) ==
  IF max_weight > 0 THEN <<w, max_weight>> ELSE <<0, 1>>

\* lines 227-231
EdgesSN(es) ==
  [i \in 1..Len(es) |->
     [source |-> es[i].source, target |-> es[i].target, weight |-> es[i].weight,
      articleIds |-> es[i].articleIds,
      weightNorm |-> WeightNormSN(es[i].weight, MaxSeq(Weights(es)), MinSeq(Weights(es)))]]

\* lines 238-248 (the geographic bounds and the success rate are left out)
MetaSN(ns, es, now) ==
  [generatedAt |-> now,
   totalNodes |-> Len(ns),
   totalEdges |-> Len(es),
   weightMin |-> args.weight_min,
   geocodedLocations |-> Len(index.nodes),
   totalLocationsInData |-> Len(input.locations),
   articlesWithMultipleLocations |-> Len(index.article_to_locations)]

SurfaceNames == {"Lome", "lome ", "Accra"}

RECURSIVE SeqsUpTo(_, _)
SeqsUpTo(S, n) ==
  IF n = 0 THEN {<<>>}
  ELSE LET shorter == SeqsUpTo(S, n - 1)
       IN  shorter \cup { Append(s, x) : s \in { t \in shorter : Len(t) = n - 1 }, x \in S }

SpatialFields == SeqsUpTo(SurfaceNames, MaxSpatial)

\* articles.json: no article, one article or two articles
ArticleLists ==
  {<<>>} \cup { <<[id |-> 1, spatial |-> f]>> : f \in SpatialFields }
         \cup { <<[id |-> 1, spatial |-> f], [id |-> 2, spatial |-> g]>> :
                  f \in SpatialFields, g \in SpatialFields }

\* locations.json: missing or empty, or three locations, the last one with
\* coordinates out of range
LocationLists ==
  { <<>>,
    << Location(10, "Lome", Present(<<6, 1>>), <<1>>),
       Location(4, "Sokode", Absent, <<>>),
       Location(2, "Accra", Present(<<5, 0>>), <<1, 2>>),
       Location(3, "Kara", Present(<<95, 1>>), <<>>) >> }

InitSN ==
  /\ script = "sn"
  /\ pc = "load"
  /\ args \in [weight_min : 1..MaxWeightMin]
  /\ input \in [articles : ArticleLists, locations : LocationLists]
  /\ index = <<>>
  /\ acc = <<>>
  /\ pos = 1
  /\ nodes = <<>>
  /\ edges = <<>>
  /\ meta = <<>>
  /\ output = NoOutput

\* lines 75-77: `if not articles or not locations: return`
SN_MissingData ==
  /\ script = "sn" /\ pc = "load"
  /\ input.articles = <<>> \/ input.locations = <<>>
  /\ pc' = "done"
  /\ UNCHANGED <<script, args, input, index, acc, pos, nodes, edges, meta, output>>

\* lines 81-148: location nodes and the article index
SN_BuildIndex ==
  /\ script = "sn" /\ pc = "load"
  /\ ~(input.articles = <<>> \/ input.locations = <<>>)
  /\ LET ns == LocationNodes(input.locations)
     IN  index' = [nodes |-> ns,
                   article_to_locations |-> ArticleToLocations(input.articles, ns, <<>>)]
  /\ pc' = "accumulate"
  /\ UNCHANGED <<script, args, input, acc, pos, nodes, edges, meta, output>>

\* lines 153-168: one iteration of the loop over article_to_locations
SN_AccumulateArticle ==
  /\ script = "sn" /\ pc = "accumulate"
  /\ pos <= Len(index.article_to_locations)
  /\ LET entry == index.article_to_locations[pos]
     IN  acc' = AccumulateSN(acc, entry.key, entry.value, IndexPairs(1, Len(entry.value)))
  /\ pos' = pos + 1
  /\ UNCHANGED <<script, pc, args, input, index, nodes, edges, meta, output>>

\* lines 170-249: prune, metrics, connected nodes, weightNorm, meta
SN_Build ==
  /\ script = "sn" /\ pc = "accumulate"
  /\ pos > Len(index.article_to_locations)
  /\ LET es == PruneSN(acc)
         ns == NodesSN(index.nodes, es)
         ed == IF es # <<>> THEN EdgesSN(es) ELSE es
     IN  \E now \in Clock :
           /\ nodes' = ns
           /\ edges' = ed
           /\ meta' = MetaSN(ns, ed, now)
  /\ pc' = "serialize"
  /\ UNCHANGED <<script, args, input, index, acc, pos, output>>

\* lines 252-256: spatial.json is written
SN_WriteOutput ==
  /\ script = "sn" /\ pc = "serialize"
  /\ output' = Written
  /\ pc' = "done"
  /\ UNCHANGED <<script, args, input, index, acc, pos, nodes, edges, meta>>

NextSN == SN_MissingData \/ SN_BuildIndex \/ SN_AccumulateArticle \/ SN_Build
          \/ SN_WriteOutput

SpecSN == InitSN /\ [][NextSN]_vars

---------------------------------------------------------------------------
(* generate_references_subject_cooccurrence.py *)

\* a subject field holds at most MaxSubjects values
MaxSubjects == 3

\* list(data["pub_ids"])[:100]
ARTICLE_IDS_CAP == 100
\* min(50, len(nodes))
TOP_LABEL_CAP == 50

\* hashlib.md5(label.encode("utf-8")).hexdigest()[:8] of the labels of the model
Md5Prefix(label) ==
  CASE label = "islam" -> "037c53a1"
    [] label = "Islam" -> "2ee6986e"
    [] label = "paix" -> "c75a8223"

make_subject_id(label) == [type |-> "subject", hash |-> Md5Prefix(label)]

\* Python's order of the label strings (upper case before lower case)
LabelRank(label) ==
  CASE label = "Islam" -> 1
    [] label = "islam" -> 2
    [] label = "paix" -> 3

\* parse_pipe_separated: None gives [], otherwise the stripped non-empty pieces
RECURSIVE StripNonEmpty(_)
StripNonEmpty(pieces) ==
  IF pieces = <<>> THEN <<>>
  ELSE (IF Strip(Head(pieces)) # "" THEN <<Strip(Head(pieces))>> ELSE <<>>)
       \o StripNonEmpty(Tail(pieces))

parse_pipe_separated(value) == IF value = Absent THEN <<>> ELSE StripNonEmpty(value[1])

\* d[k].add(x) on a defaultdict(set) kept as a sequence of [key, value] entries
DictAdd(d, k, x) ==
  LET i == KeyIndex(d, k)
  IN  IF i = 0 THEN Append(d, [key |-> k, value |-> {x}])
      ELSE [d EXCEPT ![i].value = @ \cup {x}]

DictGet(d, k) == LET i == KeyIndex(d, k) IN IF i = 0 THEN {} ELSE d[i].value

RECURSIVE AddSubjects(_, _, _)
AddSubjects(st, pub_id, subjects) ==
  IF subjects = <<>> THEN st
  ELSE AddSubjects([ref_subjects |-> DictAdd(st.ref_subjects, pub_id, Head(subjects)),
                    subject_refs |-> DictAdd(st.subject_refs, Head(subjects), pub_id)],
                   pub_id, Tail(subjects))

\* lines 54-66: the loop over the records
RECURSIVE RefSubjects(_, _)
RefSubjects(records, st) ==
  IF records = <<>> THEN st
  ELSE LET record == Head(records)
           subjects == parse_pipe_separated(record.subject)
           st2 == IF Len(subjects) < 2 \/ record.pub_id = Absent
                  THEN st
                  ELSE AddSubjects(st, record.pub_id[1], subjects)
       IN  RefSubjects(Tail(records), st2)

\* sorted(subjects)
RECURSIVE SortedLabels(_)
SortedLabels(S) ==
  IF S = {} THEN <<>>
  ELSE LET m == CHOOSE x \in S : \A y \in S : LabelRank(x) <= LabelRank(y)
       IN  <<m>> \o SortedLabels(S \ {m})

\* lines 79-85: one contribution of pub_id to the pair (subj1, subj2)
ContributeSC(a, pub_id, subj1, subj2) ==
  LET i == AccIndex(a, subj1, subj2)
      a1 == IF i = 0
            THEN Append(a, [source |-> subj1, target |-> subj2, weight |-> 0, pub_ids |-> {}])
            ELSE a
      k == IF i = 0 THEN Len(a1) ELSE i
  IN  [a1 EXCEPT ![k].weight = @ + 1, ![k].pub_ids = @ \cup {pub_id}]

RECURSIVE AccumulateSC(_, _, _, _)
AccumulateSC(a, pub_id, subjects_list, ips) ==
  IF ips = <<>> THEN a
  ELSE AccumulateSC(ContributeSC(a, pub_id, subjects_list[Head(ips)[1]],
                                 subjects_list[Head(ips)[2]]),
                    pub_id, subjects_list, Tail(ips))

\* lines 89-107: the result returned when no pair was found
EmptyResultSC ==
  [nodes |-> <<>>, edges |-> <<>>,
   meta |-> [generatedAt |-> "", totalNodes |-> 0, totalEdges |-> 0,
             supportedTypes |-> <<"subject">>, weightMinConfigured |-> 1,
             weightMinActual |-> 0, weightMax |-> 0,
             degree |-> [min |-> 0, max |-> 0, mean |-> 0],
             strength |-> [min |-> 0, max |-> 0, mean |-> 0],
             topLabelCount |-> 50, typePairs |-> << <<"subject", "subject">> >>,
             labelPriorityTop |-> <<>>]]

\* lines 110-120: the subjects that occur in a pair
AllSubjects(a) == UsedIds(a)

\* index in a sequence of the first occurrence of x
IndexOf(s, x) == CHOOSE i \in 1..Len(s) : s[i] = x /\ \A j \in 1..(i - 1) : s[j] # x

\* lines 123-144: order is the iteration order of the set all_subjects
NodesSC(a, subject_refs, order) ==
  LET sorted_subjects ==
        SortDescBy(order, [i \in 1..Len(order) |-> StrengthOf(a, order[i])])
  IN  [i \in 1..Len(order) |->
         [id |-> make_subject_id(order[i]),
          type |-> "subject",
          label |-> order[i],
          count |-> Cardinality(DictGet(subject_refs, order[i])),
          degree |-> DegreeOf(a, order[i]),
          strength |-> StrengthOf(a, order[i]),
          labelPriority |-> IndexOf(sorted_subjects, order[i]) - 1]]

Min2(a, b) == IF a < b THEN a ELSE b

Take(s, n) == SubSeq(s, 1, Min2(n, Len(s)))

\* a slip that divides by the smallest weight
WeightNormSC_ByMin(w, max_weight, min_weight) ==
  IF max_weight > 0 THEN <<w, min_weight>> ELSE <<0, 1>>

\* "weightNorm": weight / max_weight if max_weight > 0 else 0, as <<num, den>>
WeightNormSC(w, max_weight, min_weight) ==
  IF max_weight > 0 THEN <<w, max_weight>> ELSE <<0, 1>>

\* lines 147-164: pub_order is the order in which the pub_ids sets are iterated
EdgesSC(a, pub_order) ==
  LET es == [i \in 1..Len(a) |->
               [source |-> make_subject_id(a[i].source),
                target |-> make_subject_id(a[i].target),
                type |-> <<"subject", "subject">>,
                weight |-> a[i].weight,
                weightNorm |-> WeightNormSC(a[i].weight, MaxSeq(Weights(a)), MinSeq(Weights(a))),
                articleIds |-> Take(SelectSeq(pub_order, LAMBDA x : x \in a[i].pub_ids),
                                    ARTICLE_IDS_CAP)]]
  IN  SortDescBy(es, Weights(es))

\* round(sum / len, 2) in hundredths
Round2(num, den) == RoundHalfEven(num * 100, den)

\* lines 167-197: the statistics are taken over the accumulated pairs
MetaSC(a, ns, es, order, now) ==
  LET degrees == [i \in 1..Len(ns) |-> ns[i].degree]
      strengths == [i \in 1..Len(ns) |-> ns[i].strength]
  IN  [generatedAt |-> now,
       totalNodes |-> Len(ns),
       totalEdges |-> Len(es),
       supportedTypes |-> <<"subject">>,
       weightMinConfigured |-> 1,
       weightMinActual |-> MinSeq(Weights(a)),
       weightMax |-> MaxSeq(Weights(a)),
       degree |-> [min |-> MinSeq(degrees), max |-> MaxSeq(degrees),
                   mean |-> Round2(SumSeq(degrees), Len(degrees))],
       strength |-> [min |-> MinSeq(strengths), max |-> MaxSeq(strengths),
                     mean |-> Round2(SumSeq(strengths), Len(strengths))],
       topLabelCount |-> Min2(TOP_LABEL_CAP, Len(ns)),
       typePairs |-> << <<"subject", "subject">> >>,
       labelPriorityTop |-> [i \in 1..Min2(TOP_LABEL_CAP, Len(ns)) |-> ns[i].label]]

SubjectForms == {"islam", "Islam ", "paix"}

SubjectFields == {Absent} \cup { Present(f) : f \in SeqsUpTo(SubjectForms, MaxSubjects) }

\* the records: none, one, or two; the second one holds at most two values and
\* may lack its id or repeat the id of the first
RecordLists ==
  {<<>>} \cup { <<[subject |-> f, pub_id |-> Present(1)]>> : f \in SubjectFields }
         \cup { <<[subject |-> f, pub_id |-> Present(1)], [subject |-> g, pub_id |-> p]>> :
                  f \in SubjectFields,
                  g \in { h \in SubjectFields : h = Absent \/ Len(h[1]) <= 2 },
                  p \in {Absent, Present(1), Present(2)} }

InitSC ==
  /\ script = "sc"
  /\ pc = "index"
  /\ args = <<>>
  /\ input \in [records : RecordLists]
  /\ index = <<>>
  /\ acc = <<>>
  /\ pos = 1
  /\ nodes = <<>>
  /\ edges = <<>>
  /\ meta = <<>>
  /\ output = NoOutput

\* lines 50-69: ref_subjects and subject_refs
SC_BuildIndex ==
  /\ script = "sc" /\ pc = "index"
  /\ index' = RefSubjects(input.records,
                          [ref_subjects |-> <<>>, subject_refs |-> <<>>])
  /\ pc' = "accumulate"
  /\ UNCHANGED <<script, args, input, acc, pos, nodes, edges, meta, output>>

\* lines 74-85: one iteration of the loop over ref_subjects
SC_AccumulateRef ==
  /\ script = "sc" /\ pc = "accumulate"
  /\ pos <= Len(index.ref_subjects)
  /\ LET entry == index.ref_subjects[pos]
         subjects_list == SortedLabels(entry.value)
     IN  acc' = AccumulateSC(acc, entry.key, subjects_list, IndexPairs(1, Len(subjects_list)))
  /\ pos' = pos + 1
  /\ UNCHANGED <<script, pc, args, input, index, nodes, edges, meta, output>>

\* lines 89-107: no pair at all
SC_BuildEmpty ==
  /\ script = "sc" /\ pc = "accumulate"
  /\ pos > Len(index.ref_subjects)
  /\ acc = <<>>
  /\ nodes' = EmptyResultSC.nodes
  /\ edges' = EmptyResultSC.edges
  /\ meta' = EmptyResultSC.meta
  /\ pc' = "serialize"
  /\ UNCHANGED <<script, args, input, index, acc, pos, output>>

\* lines 109-199: node metrics, label priority, edges, meta
SC_Build ==
  /\ script = "sc" /\ pc = "accumulate"
  /\ pos > Len(index.ref_subjects)
  /\ acc # <<>>
  /\ \E order \in SetOrders(AllSubjects(acc)),
        pub_order \in SetOrders({ index.ref_subjects[i].key : i \in 1..Len(index.ref_subjects) }),
        now \in Clock :
       LET ns == NodesSC(acc, index.subject_refs, order)
           es == EdgesSC(acc, pub_order)
       IN  /\ nodes' = ns
           /\ edges' = es
           /\ meta' = MetaSC(acc, ns, es, order, now)
  /\ pc' = "serialize"
  /\ UNCHANGED <<script, args, input, index, acc, pos, output>>

\* lines 217-219: save_json(result, output_path)
SC_WriteOutput ==
  /\ script = "sc" /\ pc = "serialize"
  /\ output' = Written
  /\ pc' = "done"
  /\ UNCHANGED <<script, args, input, index, acc, pos, nodes, edges, meta>>

NextSC == SC_BuildIndex \/ SC_AccumulateRef \/ SC_BuildEmpty \/ SC_Build \/ SC_WriteOutput

SpecSC == InitSC /\ [][NextSC]_vars

---------------------------------------------------------------------------
(* generate_topic_network.py *)
(* A topic probability is an integer number of 1/100000; an edge weight    *)
(* (rounded to 4 decimals) an integer number of 1/10000; a strength is a   *)
(* fraction <<num, den>>.                                                  *)

\* a topic file lists at most MaxDocs documents
MaxDocs == 2

DEFAULT_ARTICLES_PER_TOPIC == 50
\* MIN_TOPIC_PROB = 0.3
MIN_TOPIC_PROB == 30000

\* round(topic_prob, 4)
Round4Prob(topic_prob) == RoundHalfEven(topic_prob, 10)

\* article_id = f"article:{url.split('/')[-1]}" for the URLs of the model, which
\* all contain a slash
ArticleIdOf(url) ==
  CASE url = "https://iwac/item/101" -> [type |-> "article", id |-> 101]
    [] url = "https://iwac/item/102" -> [type |-> "article", id |-> 102]

\* docs_sorted = sorted(docs, key=topic_prob, reverse=True)[:articles_per_topic]
DocsSorted(docs) ==
  Take(SortDescBy(docs, [i \in 1..Len(docs) |-> docs[i].topic_prob]), args.articles_per_topic)

\* the state of the topic loop
TopicLoopState(ns, es, article_ids, all_probs) ==
  [nodes |-> ns, edges |-> es, article_ids |-> article_ids, all_probs |-> all_probs]

\* lines 163-212: the loop over the documents of one topic; k is the position
\* of the topic node in nodes, sum the running (unrounded) strength of the topic
RECURSIVE ProcessDocs(_, _, _, _, _)
ProcessDocs(st, docs, topic_id, k, sum) ==
  IF docs = <<>>
  THEN \* line 215: topic_node['strength'] = round(topic_node['strength'], 2)
       [st EXCEPT !.nodes[k].strength = <<RoundHalfEven(sum, 1000), 100>>]
  ELSE LET doc == Head(docs)
           topic_prob == doc.topic_prob
       IN  IF topic_prob < args.min_prob \/ doc.url = ""
           THEN ProcessDocs(st, Tail(docs), topic_id, k, sum)
           ELSE LET article_id == ArticleIdOf(doc.url)
                    article_node ==
                      [id |-> article_id, type |-> "article", label |-> doc.title,
                       topicProb |-> Round4Prob(topic_prob), url |-> doc.url,
                       topicId |-> topic_id, degree |-> 1,
                       strength |-> <<Round4Prob(topic_prob), 10000>>,
                       labelPriority |-> 0]
                    ns1 == IF article_id \notin st.article_ids
                           THEN Append(st.nodes, article_node)
                           ELSE st.nodes
                    edge == [source |-> st.nodes[k].id, target |-> article_id,
                             weight |-> Round4Prob(topic_prob), weightNorm |-> <<0, 1>>]
                    ns2 == [ns1 EXCEPT ![k].degree = @ + 1]
                IN  ProcessDocs(TopicLoopState(ns2, Append(st.edges, edge),
                                               st.article_ids \cup {article_id},
                                               Append(st.all_probs, topic_prob)),
                                Tail(docs), topic_id, k, sum + topic_prob)

\* lines 117-217: one iteration of the loop over topics_summary
ProcessTopic(st, topic_summary, details) ==
  IF topic_summary.id = -1 \/ details = Absent THEN st
  ELSE LET topic_node ==
             [id |-> [type |-> "topic", id |-> topic_summary.id], type |-> "topic",
              label |-> topic_summary.label, count |-> topic_summary.count,
              degree |-> 0, strength |-> <<0, 1>>, labelPriority |-> 1]
           ns == Append(st.nodes, topic_node)
       IN  ProcessDocs([st EXCEPT !.nodes = ns], DocsSorted(details[1].docs),
                       topic_summary.id, Len(ns), 0)

\* lines 220-230: min-max normalisation rounded to 4 decimals, 1.0 when all the
\* weights are equal
WeightNormTN(w, max_weight, min_weight) ==
  IF max_weight > min_weight
  THEN <<RoundHalfEven((w - min_weight) * 10000, max_weight - min_weight), 10000>>
  ELSE <<1, 1>>

EdgesTN(es) ==
  [i \in 1..Len(es) |->
     [es[i] EXCEPT !.weightNorm =
        WeightNormTN(es[i].weight, MaxSeq(Weights(es)), MinSeq(Weights(es)))]]

\* lines 241-256
MetaTN(ns, es, all_probs, now) ==
  [generatedAt |-> now,
   totalNodes |-> Len(ns),
   totalTopics |-> Cardinality({ i \in 1..Len(ns) : ns[i].type = "topic" }),
   totalArticles |-> Cardinality({ i \in 1..Len(ns) : ns[i].type = "article" }),
   totalEdges |-> Len(es),
   articlesPerTopic |-> args.articles_per_topic,
   minTopicProb |-> args.min_prob,
   weightMin |-> IF all_probs # <<>> THEN Round4Prob(MinSeq(all_probs)) ELSE 0,
   weightMax |-> IF all_probs # <<>> THEN Round4Prob(MaxSeq(all_probs)) ELSE 10000]

Doc(topic_prob, url) == [topic_prob |-> topic_prob, url |-> url, title |-> "T"]

DocChoices ==
  { Doc(20000, "https://iwac/item/101"), Doc(50004, "https://iwac/item/101"),
    Doc(50004, "https://iwac/item/102"), Doc(90000, "https://iwac/item/102"),
    Doc(90000, "") }

\* a topic file: missing, or its list of documents
TopicFiles == {Absent} \cup { Present([docs |-> d]) : d \in SeqsUpTo(DocChoices, MaxDocs) }

Topic(id) == [id |-> id, label |-> "a - b", count |-> 3]

\* summary.json: missing or empty, one topic, the outlier and a topic, two topics
\* (the file of the second topic lists at most one document)
TopicSummaries ==
  { <<>>, <<Topic(0)>>, <<Topic(-1), Topic(0)>>, <<Topic(0), Topic(1)>> }

InitTN ==
  /\ script = "tn"
  /\ pc = "load"
  /\ args \in [articles_per_topic : {1, DEFAULT_ARTICLES_PER_TOPIC}, min_prob : {MIN_TOPIC_PROB}]
  /\ \E ts \in TopicSummaries, d0 \in TopicFiles, d1 \in TopicFiles :
       /\ (\A i \in 1..Len(ts) : ts[i].id # 0) => d0 = Absent
       /\ (\A i \in 1..Len(ts) : ts[i].id # 1) => d1 = Absent
       /\ d1 # Absent => Len(d1[1].docs) <= 1
       /\ input = [topics_summary |-> ts,
                   details |-> [id \in {-1, 0, 1} |->
                                  IF id = 0 THEN d0 ELSE IF id = 1 THEN d1 ELSE Absent]]
  /\ index = [article_ids |-> {}, all_probs |-> <<>>]
  /\ acc = <<>>
  /\ pos = 1
  /\ nodes = <<>>
  /\ edges = <<>>
  /\ meta = <<>>
  /\ output = NoOutput

\* lines 98-101: `if not topics_summary: return`
TN_NoTopics ==
  /\ script = "tn" /\ pc = "load"
  /\ input.topics_summary = <<>>
  /\ pc' = "done"
  /\ UNCHANGED <<script, args, input, index, acc, pos, nodes, edges, meta, output>>

\* lines 103-114
TN_Start ==
  /\ script = "tn" /\ pc = "load"
  /\ input.topics_summary # <<>>
  /\ pc' = "accumulate"
  /\ UNCHANGED <<script, args, input, index, acc, pos, nodes, edges, meta, output>>

\* lines 117-217: one iteration of the loop over the topics
TN_ProcessTopic ==
  /\ script = "tn" /\ pc = "accumulate"
  /\ pos <= Len(input.topics_summary)
  /\ LET topic_summary == input.topics_summary[pos]
         st == ProcessTopic(TopicLoopState(nodes, edges, index.article_ids, index.all_probs),
                            topic_summary, input.details[topic_summary.id])
     IN  /\ nodes' = st.nodes
         /\ edges' = st.edges
         /\ index' = [article_ids |-> st.article_ids, all_probs |-> st.all_probs]
  /\ pos' = pos + 1
  /\ UNCHANGED <<script, pc, args, input, acc, meta, output>>

\* lines 219-256: normalise the edge weights, build the output
TN_Build ==
  /\ script = "tn" /\ pc = "accumulate"
  /\ pos > Len(input.topics_summary)
  /\ LET ed == IF edges # <<>> THEN EdgesTN(edges) ELSE edges
     IN  \E now \in Clock :
           /\ edges' = ed
           /\ meta' = MetaTN(nodes, ed, index.all_probs, now)
  /\ pc' = "serialize"
  /\ UNCHANGED <<script, args, input, index, acc, pos, nodes, output>>

\* lines 259-263: topic-network.json is written
TN_WriteOutput ==
  /\ script = "tn" /\ pc = "serialize"
  /\ output' = Written
  /\ pc' = "done"
  /\ UNCHANGED <<script, args, input, index, acc, pos, nodes, edges, meta>>

NextTN == TN_NoTopics \/ TN_Start \/ TN_ProcessTopic \/ TN_Build \/ TN_WriteOutput

SpecTN == InitTN /\ [][NextTN]_vars

---------------------------------------------------------------------------
(* generate_cooccurrence.py *)

\* a text has at most MaxTokens whitespace-separated tokens
MaxTokens == 4
\* --window-size ranges over -1..MaxWindow
MaxWindow == 2

\* self.scary_terms, cut down to three of its families (in the order of the
\* source) and some of their variants
scary_terms ==
  << [key |-> "radicalisation", variants |-> <<"radical", "radicaliser", "radicalisation">>],
     [key |-> "islamisme", variants |-> <<"islamisme", "islamiste", "islamistes">>],
     [key |-> "djihadisme", variants |-> <<"djihad", "djihadisme", "jihad">>] >>

\* alphabetical order of the family names
FamilyRank(f) ==
  CASE f = "djihadisme" -> 1
    [] f = "islamisme" -> 2
    [] f = "radicalisation" -> 3

\* tuple(sorted([term1, term2]))
SortedPair(term1, term2) ==
  IF FamilyRank(term1) <= FamilyRank(term2) THEN <<term1, term2>> ELSE <<term2, term1>>

\* re.sub(r'[^\w\s]', '', word) on the lower-cased tokens of the model
CleanWord(word) == CASE word = "radical," -> "radical" [] OTHER -> word

\* a slip that also matches a word of which a variant is a prefix
RECURSIVE MatchPositions_Prefix(_, _, _)
MatchPositions_Prefix(words, i, variants) ==
  IF i > Len(words) THEN <<>>
  ELSE (IF \/ CleanWord(words[i]) \in { Lower(v) : v \in Range(variants) }
           \/ (words[i] = "radicalement" /\ "radical" \in Range(variants))
        THEN <<i - 1>> ELSE <<>>)
       \o MatchPositions_Prefix(words, i + 1, variants)

\* the positions i (from 0) of the words whose cleaned form is one of the variants
RECURSIVE MatchPositions(_, _, _)
MatchPositions(words, i, variants) ==
  IF i > Len(words) THEN <<>>
  ELSE (IF CleanWord(words[i]) \in { Lower(v) : v \in Range(variants) }
        THEN <<i - 1>> ELSE <<>>)
       \o MatchPositions(words, i + 1, variants)

RECURSIVE TermPositions(_, _)
TermPositions(words, families) ==
  IF families = <<>> THEN <<>>
  ELSE LET ps == MatchPositions(words, 1, Head(families).variants)
       IN  (IF ps # <<>> THEN <<[key |-> Head(families).key, positions |-> ps]>> ELSE <<>>)
           \o TermPositions(words, Tail(families))

\* find_term_positions(text): text is the sequence of its tokens; an empty text
\* gives {}
find_term_positions(text) ==
  IF text = <<>> THEN <<>>
  ELSE TermPositions([i \in 1..Len(text) |-> Lower(text[i])], scary_terms)

\* d[k] += n on a defaultdict(int) kept as a function
Inc(d, k, n) ==
  [x \in DOMAIN d \cup {k} |->
     (IF x \in DOMAIN d THEN d[x] ELSE 0) + (IF x = k THEN n ELSE 0)]

\* lines 193-198: the loops over positions1 x positions2
Abs(x) == IF x < 0 THEN -x ELSE x

\* a slip that leaves out the positions exactly window_size apart
WithinWindow_Strict(pos1, pos2, window_size) == Abs(pos1 - pos2) < window_size

\* abs(pos1 - pos2) <= self.window_size
WithinWindow(pos1, pos2, window_size) == Abs(pos1 - pos2) <= window_size

RECURSIVE CountWindow(_, _, _, _)
CountWindow(counts, pair, pps, window_size) ==
  IF pps = <<>> THEN counts
  ELSE CountWindow(IF WithinWindow(Head(pps)[1], Head(pps)[2], window_size)
                   THEN Inc(counts, pair, 1) ELSE counts,
                   pair, Tail(pps), window_size)

\* lines 187-198: the loops over the pairs of families
RECURSIVE CountFamilies(_, _, _, _)
CountFamilies(counts, term_positions, ips, window_size) ==
  IF ips = <<>> THEN counts
  ELSE LET e1 == term_positions[Head(ips)[1]]
           e2 == term_positions[Head(ips)[2]]
       IN  CountFamilies(CountWindow(counts, SortedPair(e1.key, e2.key),
                                     LoopPairs(e1.positions, e2.positions), window_size),
                         term_positions, Tail(ips), window_size)

compute_cooccurrence_in_article(text, window_size) ==
  LET term_positions == find_term_positions(text)
  IN  IF Len(term_positions) < 2 THEN <<>>
      ELSE CountFamilies(<<>>, term_positions, IndexPairs(1, Len(term_positions)),
                         window_size)

\* lines 274-275: term_counts[term] += len(positions)
RECURSIVE AddTermCounts(_, _)
AddTermCounts(term_counts, term_positions) ==
  IF term_positions = <<>> THEN term_counts
  ELSE AddTermCounts(Inc(term_counts, Head(term_positions).key,
                         Len(Head(term_positions).positions)),
                     Tail(term_positions))

\* lines 279-280: cooccurrence_matrix[pair] += count
RECURSIVE MergeCounts(_, _)
MergeCounts(matrix, article_cooccurrence) ==
  IF DOMAIN article_cooccurrence = {} THEN matrix
  ELSE LET pair == CHOOSE x \in DOMAIN article_cooccurrence : TRUE
       IN  MergeCounts(Inc(matrix, pair, article_cooccurrence[pair]),
                       [x \in DOMAIN article_cooccurrence \ {pair} |-> article_cooccurrence[x]])

GetOr0(d, k) == IF k \in DOMAIN d THEN d[k] ELSE 0

\* a slip that sorts the family names in descending order
RECURSIVE SortedFamilies_Desc(_)
SortedFamilies_Desc(S) ==
  IF S = {} THEN <<>>
  ELSE LET m == CHOOSE x \in S : \A y \in S : FamilyRank(x) >= FamilyRank(y)
       IN  <<m>> \o SortedFamilies_Desc(S \ {m})

\* sorted(...) of a set of family names
RECURSIVE SortedFamilies(_)
SortedFamilies(S) ==
  IF S = {} THEN <<>>
  ELSE LET m == CHOOSE x \in S : \A y \in S : FamilyRank(x) <= FamilyRank(y)
       IN  <<m>> \o SortedFamilies(S \ {m})

\* _build_matrix_data
build_matrix_data(term_families, cooccurrence_matrix, term_counts) ==
  LET active_terms ==
        SortedFamilies({ t \in Range(term_families) : GetOr0(term_counts, t) > 0 })
      n == Len(active_terms)
      matrix == [i \in 1..n |-> [j \in 1..n |->
                   IF i = j THEN GetOr0(term_counts, active_terms[i])
                   ELSE GetOr0(cooccurrence_matrix,
                               SortedPair(active_terms[i], active_terms[j]))]]
      cells == { <<i, j>> \in (1..n) \X (1..n) : i # j }
  IN  IF active_terms = <<>>
      THEN [terms |-> <<>>, matrix |-> <<>>, term_counts |-> <<>>, max_cooccurrence |-> 0]
      ELSE [terms |-> active_terms,
            matrix |-> matrix,
            term_counts |-> [t \in Range(active_terms) |-> GetOr0(term_counts, t)],
            max_cooccurrence |->
              IF cells = {} THEN 0
              ELSE LET c == CHOOSE c \in cells :
                              \A e \in cells : matrix[c[1]][c[2]] >= matrix[e[1]][e[2]]
                   IN  IF matrix[c[1]][c[2]] > 0 THEN matrix[c[1]][c[2]] ELSE 0]

Tokens == {"Radical,", "radicalement", "islamiste", "jihad"}

Texts == SeqsUpTo(Tokens, MaxTokens) \ {<<>>}

SecondTexts == { <<"jihad", "Radical,">>, <<"islamiste">> }

\* the lemma_nostop column after _clean_data: no row, one row or two rows
Corpora ==
  {<<>>} \cup { <<t>> : t \in Texts } \cup { <<t, u>> : t \in Texts, u \in SecondTexts }

InitWM ==
  /\ script = "wm"
  /\ pc = "accumulate"
  /\ args \in [window_size : -1..MaxWindow]
  /\ input \in [articles : Corpora]
  /\ index = [term_positions |-> <<>>, article_cooccurrence |-> <<>>]
  /\ acc = [cooccurrence_matrix |-> <<>>, term_counts |-> <<>>]
  /\ pos = 1
  /\ nodes = <<>>
  /\ edges = <<>>
  /\ meta = <<>>
  /\ output = NoOutput

\* lines 266-280: one iteration of the loop over the articles
WM_ProcessArticle ==
  /\ script = "wm" /\ pc = "accumulate"
  /\ pos <= Len(input.articles)
  /\ LET text == input.articles[pos]
         term_positions == find_term_positions(text)
         article_cooccurrence == compute_cooccurrence_in_article(text, args.window_size)
     IN  /\ index' = [term_positions |-> term_positions,
                      article_cooccurrence |-> article_cooccurrence]
         /\ acc' = [cooccurrence_matrix |->
                      MergeCounts(acc.cooccurrence_matrix, article_cooccurrence),
                    term_counts |-> AddTermCounts(acc.term_counts, term_positions)]
  /\ pos' = pos + 1
  /\ UNCHANGED <<script, pc, args, input, nodes, edges, meta, output>>

\* line 283: matrix_data = self._build_matrix_data(...)
WM_BuildMatrix ==
  /\ script = "wm" /\ pc = "accumulate"
  /\ pos > Len(input.articles)
  /\ meta' = build_matrix_data([i \in 1..Len(scary_terms) |-> scary_terms[i].key],
                               acc.cooccurrence_matrix, acc.term_counts)
  /\ pc' = "serialize"
  /\ UNCHANGED <<script, args, input, index, acc, pos, nodes, edges, output>>

\* lines 486-490: matrix-global.json is written
WM_WriteOutput ==
  /\ script = "wm" /\ pc = "serialize"
  /\ output' = Written
  /\ pc' = "done"
  /\ UNCHANGED <<script, args, input, index, acc, pos, nodes, edges, meta>>

NextWM == WM_ProcessArticle \/ WM_BuildMatrix \/ WM_WriteOutput

SpecWM == InitWM /\ [][NextWM]_vars

---------------------------------------------------------------------------
(* A run of any one of the scripts *)

Init == InitBN \/ InitSN \/ InitSC \/ InitTN \/ InitWM

Next == NextBN \/ NextSN \/ NextSC \/ NextTN \/ NextWM

Spec == Init /\ [][Next]_vars

---------------------------------------------------------------------------
(* iwac_utils.find_column: script = "fc"; input holds the arguments of the call,
   index the data frame during the call, meta the outcome of the call *)

MaxCandidates == 3

\* a slip that goes on after a match and returns the last matching candidate
RECURSIVE find_column_Last(_, _, _)
find_column_Last(columns, candidates, required) ==
  IF candidates = <<>>
  THEN [raised |-> required, value |-> Absent]
  ELSE LET rest == find_column_Last(columns, Tail(candidates), required)
       IN  IF Head(candidates) \in Range(columns) /\ rest.value = Absent
           THEN [raised |-> FALSE, value |-> Present(Head(candidates))]
           ELSE rest

\* for col in candidates: if col in df.columns: return col
\* if required: raise ValueError(...); return None
RECURSIVE find_column(_, _, _)
find_column(columns, candidates, required) ==
  IF candidates = <<>>
  THEN [raised |-> required, value |-> Absent]
  ELSE IF Head(candidates) \in Range(columns)
       THEN [raised |-> FALSE, value |-> Present(Head(candidates))]
       ELSE find_column(columns, Tail(candidates), required)

InitFC ==
  /\ script = "fc"
  /\ pc = "call"
  /\ args = <<>>
  /\ input \in [columns : { <<>>, <<"title">>, <<"Title">>, <<"title", "Title">>,
                            <<"Title", "title">>, <<"other">> },
                candidates : SeqsUpTo({"title", "Title", "missing"}, MaxCandidates),
                required : BOOLEAN]
  /\ index = [columns |-> input.columns]
  /\ acc = <<>>
  /\ pos = 1
  /\ nodes = <<>>
  /\ edges = <<>>
  /\ meta = <<>>
  /\ output = NoOutput

\* lines 472-474 and 479: the call returns a column name or None
FC_Return ==
  /\ script = "fc" /\ pc = "call"
  /\ LET res == find_column(index.columns, input.candidates, input.required)
     IN  ~res.raised /\ meta' = res
  /\ pc' = "returned"
  /\ UNCHANGED <<script, args, input, index, acc, pos, nodes, edges, output>>

\* lines 476-477: the call raises ValueError
FC_Raise ==
  /\ script = "fc" /\ pc = "call"
  /\ LET res == find_column(index.columns, input.candidates, input.required)
     IN  res.raised /\ meta' = res
  /\ pc' = "raised"
  /\ UNCHANGED <<script, args, input, index, acc, pos, nodes, edges, output>>

NextFC == FC_Return \/ FC_Raise

SpecFC == InitFC /\ [][NextFC]_vars

---------------------------------------------------------------------------
(* Properties *)

GraphScripts == {"bn", "sn", "sc", "tn"}

\* the graph of the run has been built (and, once the run is over, written)
GraphBuilt == script \in GraphScripts /\ (pc = "serialize" \/ (pc = "done" /\ output = Written))

\* the accumulation loop is over
Accumulated ==
  \/ pc \in {"serialize", "done"}
  \/ /\ pc = "accumulate"
     /\ pos > Len(CASE script = "bn" -> index.a2e
                    [] script = "sn" -> index.article_to_locations
                    [] OTHER -> index.ref_subjects)

EdgeIdx == 1..Len(edges)
NodeIdx == 1..Len(nodes)

\* the largest and the smallest weight of the emitted edges (edges is not empty)
MaxWeight == CHOOSE m \in { edges[i].weight : i \in EdgeIdx } :
               \A i \in EdgeIdx : edges[i].weight <= m
MinWeight == CHOOSE m \in { edges[i].weight : i \in EdgeIdx } :
               \A i \in EdgeIdx : edges[i].weight >= m

\* C1: in build_networks and build_spatial_network every emitted edge has a
\* weight of at least the configured minimum, and no accumulated pair whose
\* weight is below the minimum is among the edges.
C1_Threshold ==
  (script \in {"bn", "sn"} /\ GraphBuilt) =>
    /\ \A i \in EdgeIdx : edges[i].weight >= args.weight_min
    /\ \A k \in 1..Len(acc) :
         acc[k].weight < args.weight_min =>
           ~\E i \in EdgeIdx : edges[i].source = acc[k].source
                                /\ edges[i].target = acc[k].target

\* a pair of weight 2 is kept and a pair of weight 1 is dropped at --weight-min 2
C1_Witness ==
  /\ script = "bn" /\ pc = "done" /\ args.weight_min = 2
  /\ \E i \in EdgeIdx : edges[i].weight = 2
  /\ \E k \in 1..Len(acc) : acc[k].weight = 1

\* C2: a node is in nodes if and only if it is the source or the target of an
\* emitted edge (build_networks, build_spatial_network, build_topic_network).
C2_NodeMembership ==
  (script \in {"bn", "sn", "tn"} /\ GraphBuilt) =>
    { nodes[i].id : i \in NodeIdx } = UsedIds(edges)

\* C3: the degree of every node is the number of emitted edges that have it as
\* source or target, and its strength the sum of their weights (build_networks,
\* generate_subject_cooccurrence).
IncidentEdges(nid) == { i \in EdgeIdx : edges[i].source = nid \/ edges[i].target = nid }

RECURSIVE SumWeights(_)
SumWeights(I) ==
  IF I = {} THEN 0
  ELSE LET i == CHOOSE i \in I : TRUE IN edges[i].weight + SumWeights(I \ {i})

C3_DegreeStrength ==
  (script \in {"bn", "sc"} /\ GraphBuilt) =>
    \A k \in NodeIdx :
      /\ nodes[k].degree = Cardinality(IncidentEdges(nodes[k].id))
      /\ nodes[k].strength = SumWeights(IncidentEdges(nodes[k].id))

\* C4: the accumulator of build_networks and build_spatial_network never holds
\* two entries for one unordered pair, every entry and every emitted edge has
\* source <= target in the order of the node-id strings.
C4_CanonicalPair ==
  script \in {"bn", "sn"} =>
    /\ \A i \in 1..Len(acc) : NodeIdLeq(acc[i].source, acc[i].target)
    /\ \A i \in 1..Len(acc) : \A j \in 1..Len(acc) :
         i # j => {acc[i].source, acc[i].target} # {acc[j].source, acc[j].target}
    /\ \A i \in EdgeIdx : NodeIdLeq(edges[i].source, edges[i].target)
    /\ \A i \in EdgeIdx : \A j \in EdgeIdx :
         i # j => {edges[i].source, edges[i].target} # {edges[j].source, edges[j].target}

\* both orders of the pair person/organization were met in one article and the
\* accumulator holds the single entry (organization, person)
C4_Witness ==
  /\ script = "bn" /\ Len(TYPE_PAIRS) = 2 /\ pc = "done"
  /\ \E i \in 1..Len(acc) :
       /\ acc[i].source.type = "organization" /\ acc[i].target.type = "person"
       /\ acc[i].weight = 2 /\ Len(acc[i].articleIds) = 1
  /\ \E i \in EdgeIdx : edges[i].source.type = "organization"

\* C5: after the accumulation the weight of a pair is the number of documents
\* in which both entities occur under an enabled category pair (build_networks),
\* and an emitted edge keeps the accumulated weight.
EntityArticles(nid) ==
  LET lst == CASE nid.type = "person" -> input.persons
               [] nid.type = "organization" -> input.organizations
               [] nid.type = "event" -> input.events
               [] nid.type = "subject" -> input.subjects
               [] nid.type = "location" -> input.locations
  IN  UNION { Range(lst[i].relatedArticleIds) : i \in { j \in 1..Len(lst) : lst[j].id = nid.id } }

PairEnabled(s, t) ==
  \/ \E i \in 1..Len(TYPE_PAIRS) :
       \/ TYPE_PAIRS[i] = <<s.type, t.type>>
       \/ TYPE_PAIRS[i] = <<t.type, s.type>>
  \/ args.no_cross_only /\ s.type = t.type /\ s # t

\* the publications whose subject fields name the subject
SubjectPubs(label) ==
  { input.records[i].pub_id[1] :
      i \in { j \in 1..Len(input.records) :
                /\ input.records[j].pub_id # Absent
                /\ label \in Range(parse_pipe_separated(input.records[j].subject)) } }

C5_WeightConservation ==
  (script \in {"bn", "sc"} /\ Accumulated) =>
    /\ script = "bn" =>
         \A k \in 1..Len(acc) :
           /\ PairEnabled(acc[k].source, acc[k].target)
           /\ acc[k].weight =
                Cardinality(EntityArticles(acc[k].source) \cap EntityArticles(acc[k].target))
    /\ script = "sc" =>
         \A k \in 1..Len(acc) :
           acc[k].weight = Cardinality(SubjectPubs(acc[k].source) \cap SubjectPubs(acc[k].target))
    /\ (script = "bn" /\ GraphBuilt) =>
         \A i \in EdgeIdx : \E k \in 1..Len(acc) :
           /\ acc[k].source = edges[i].source /\ acc[k].target = edges[i].target
           /\ acc[k].weight = edges[i].weight

\* C6: for one article and two distinct term families, the entry of
\* compute_cooccurrence_in_article for the pair is the number of position pairs
\* at most window_size apart, and there is no entry when that number is 0.
FamilyNames == { scary_terms[i].key : i \in 1..Len(scary_terms) }

VariantsOf(f) ==
  LET i == CHOOSE i \in 1..Len(scary_terms) : scary_terms[i].key = f
  IN  { Lower(v) : v \in Range(scary_terms[i].variants) }

\* the positions (from 0) of the tokens of the text that are a variant of f
PositionSet(text, f) ==
  { i \in 0..(Len(text) - 1) : CleanWord(Lower(text[i + 1])) \in VariantsOf(f) }

WindowCount(text, f, g, w) ==
  Cardinality({ pq \in PositionSet(text, f) \X PositionSet(text, g) :
                  pq[1] - pq[2] <= w /\ pq[2] - pq[1] <= w })

C6_WindowWeight ==
  (script = "wm" /\ pos > 1) =>
    LET text == input.articles[pos - 1]
        cooc == index.article_cooccurrence
    IN  /\ \A f \in FamilyNames : \A g \in FamilyNames :
             FamilyRank(f) < FamilyRank(g) =>
               LET n == WindowCount(text, f, g, args.window_size)
               IN  IF n = 0 THEN <<f, g>> \notin DOMAIN cooc
                   ELSE <<f, g>> \in DOMAIN cooc /\ cooc[<<f, g>>] = n
        /\ \A pair \in DOMAIN cooc :
             pair[1] \in FamilyNames /\ pair[2] \in FamilyNames
             /\ FamilyRank(pair[1]) < FamilyRank(pair[2])

\* positions [0, 3] and [2] with window 1: |0 - 2| is too far, |3 - 2| counts,
\* the weight is 1
C6_Witness ==
  /\ script = "wm" /\ pos = 2 /\ args.window_size = 1
  /\ input.articles[1] = <<"Radical,", "radicalement", "islamiste", "Radical,">>
  /\ index.article_cooccurrence[<<"islamisme", "radicalisation">>] = 1

\* C7 as stated: weightNorm = (weight - minWeight) / (maxWeight - minWeight)
\* over the emitted edges, and 1.0 when maxWeight = minWeight (build_networks,
\* to its 6 decimals; build_topic_network, to its 4 decimals).
IsOne(f) == f[1] = f[2]

\* f = <<n, den>> is num / d rounded to the nearest 1 / den
IsRounded(f, num, d) == 2 * Abs(f[1] * d - num * f[2]) <= d

C7_MinMaxFormula ==
  (script \in {"bn", "tn"} /\ GraphBuilt /\ edges # <<>>) =>
    \A i \in EdgeIdx :
      IF MaxWeight = MinWeight THEN IsOne(edges[i].weightNorm)
      ELSE IsRounded(edges[i].weightNorm, edges[i].weight - MinWeight, MaxWeight - MinWeight)

\* C7 amended: weightNorm = weight / maxWeight over the emitted edges in
\* build_networks (to 6 decimals), build_spatial_network and
\* generate_subject_cooccurrence (exactly), hence 1.0 for every edge when
\* maxWeight = minWeight; build_topic_network alone uses
\* (weight - minWeight) / (maxWeight - minWeight) (to 4 decimals), and 1.0
\* when maxWeight = minWeight.
C7_DivisionByMax ==
  (GraphBuilt /\ edges # <<>>) =>
    \A i \in EdgeIdx :
      LET wn == edges[i].weightNorm
      IN  /\ script = "bn" => wn[2] = 1000000 /\ IsRounded(wn, edges[i].weight, MaxWeight)
          /\ script \in {"sn", "sc"} => wn[1] * MaxWeight = edges[i].weight * wn[2]
          /\ script = "tn" =>
               IF MaxWeight = MinWeight THEN IsOne(wn)
               ELSE wn[2] = 10000
                    /\ IsRounded(wn, edges[i].weight - MinWeight, MaxWeight - MinWeight)
          /\ MaxWeight = MinWeight => IsOne(wn)

\* build_networks, with its default pairs, emitted an edge of the smallest
\* weight 1 beside one of weight 2: its weightNorm is 0.5, not 0
C7_Witness ==
  /\ script = "bn" /\ pc = "done" /\ args.pairs = <<>>
  /\ \E i \in EdgeIdx : \E j \in EdgeIdx :
       /\ edges[i].weight = 2 /\ edges[j].weight = 1
       /\ MinWeight = 1 /\ MaxWeight = 2
       /\ edges[j].weightNorm = <<500000, 1000000>>

\* C8: every emitted edge has 0 <= weightNorm <= 1, an edge of the largest
\* weight has weightNorm = 1, and when all the edges have the same weight all
\* have weightNorm = 1.
C8_NormBounds ==
  (GraphBuilt /\ edges # <<>>) =>
    \A i \in EdgeIdx :
      LET wn == edges[i].weightNorm
      IN  /\ wn[2] > 0 /\ 0 <= wn[1] /\ wn[1] <= wn[2]
          /\ edges[i].weight = MaxWeight => IsOne(wn)
          /\ MaxWeight = MinWeight => IsOne(wn)

\* the subject network has an edge of weight 2 with weightNorm 1 and an edge of
\* weight 1 with weightNorm 1/2
C8_Witness ==
  /\ script = "sc" /\ pc = "done"
  /\ \E i \in EdgeIdx : \E j \in EdgeIdx :
       /\ edges[i].weight = 2 /\ IsOne(edges[i].weightNorm)
       /\ edges[j].weight = 1 /\ edges[j].weightNorm = <<1, 2>>

\* C9: when no pair survives, the graph has no node, no edge, and all the
\* statistics of meta are 0 (build_networks, generate_subject_cooccurrence).
C9_EmptyResultZeroed ==
  (script \in {"bn", "sc"} /\ GraphBuilt /\ edges = <<>>) =>
    /\ nodes = <<>>
    /\ meta.totalNodes = 0 /\ meta.totalEdges = 0
    /\ meta.weightMinActual = 0 /\ meta.weightMax = 0
    /\ meta.degree = [min |-> 0, max |-> 0, mean |-> 0]
    /\ meta.strength = [min |-> 0, max |-> 0, mean |-> 0]

\* the corpus of the run is empty: no article, no entity, no record, no topic
EmptyCorpus ==
  CASE script = "bn" -> \A t \in DOMAIN input : \A i \in 1..Len(input[t]) :
                          input[t][i].relatedArticleIds = <<>>
    [] script = "sn" -> input.articles = <<>> \/ input.locations = <<>>
    [] script = "sc" -> input.records = <<>>
    [] script = "tn" -> input.topics_summary = <<>>
    [] OTHER -> FALSE

\* C10: a run over an empty corpus ends with a written graph that has no node
\* and no edge and totalNodes = totalEdges = 0.
C10_EmptyCorpusGraph ==
  (script \in GraphScripts /\ pc = "done" /\ EmptyCorpus) =>
    /\ output = Written
    /\ nodes = <<>> /\ edges = <<>>
    /\ meta.totalNodes = 0 /\ meta.totalEdges = 0

\* the score that orders the labels: degree * 3 + count in build_networks, the
\* strength in generate_subject_cooccurrence
PriorityScore(n) == IF script = "bn" THEN n.degree * 3 + n.count ELSE n.strength

\* C11: labelPriority is a 1-based rank: over the N emitted nodes the values
\* are exactly 1..N, each used once, and a node of strictly higher score has a
\* strictly smaller labelPriority (build_networks, generate_subject_cooccurrence).
C11_LabelPriorityRank ==
  (script \in {"bn", "sc"} /\ GraphBuilt) =>
    /\ { nodes[k].labelPriority : k \in NodeIdx } = 1..Len(nodes)
    /\ \A a \in NodeIdx : \A b \in NodeIdx :
         PriorityScore(nodes[a]) > PriorityScore(nodes[b]) =>
           nodes[a].labelPriority < nodes[b].labelPriority

\* the order of the strings "subject:<hash>" of the model
Md5Rank(h) ==
  CASE h = "037c53a1" -> 1
    [] h = "2ee6986e" -> 2
    [] h = "c75a8223" -> 3

\* id1 < id2 on the emitted node-id strings
EmittedIdLess(id1, id2) ==
  IF script = "sc" THEN Md5Rank(id1.hash) < Md5Rank(id2.hash) ELSE NodeIdLess(id1, id2)

\* C12: of two emitted nodes of equal score the one with the smaller node id has
\* the smaller labelPriority (build_networks, generate_subject_cooccurrence).
C12_RankTieBreak ==
  (script \in {"bn", "sc"} /\ GraphBuilt) =>
    \A a \in NodeIdx : \A b \in NodeIdx :
      (PriorityScore(nodes[a]) = PriorityScore(nodes[b])
         /\ EmittedIdLess(nodes[a].id, nodes[b].id)) =>
        nodes[a].labelPriority < nodes[b].labelPriority

\* (source, target) of e1 is before (source, target) of e2
PairIdLess(e1, e2) ==
  \/ EmittedIdLess(e1.source, e2.source)
  \/ e1.source = e2.source /\ EmittedIdLess(e1.target, e2.target)

\* C13: the emitted edges are in descending order of weight, and edges of equal
\* weight in ascending order of their (source, target) pair
\* (build_networks, generate_subject_cooccurrence).
C13_EdgeOrder ==
  (script \in {"bn", "sc"} /\ GraphBuilt) =>
    \A i \in EdgeIdx : \A j \in EdgeIdx :
      i < j =>
        /\ edges[i].weight >= edges[j].weight
        /\ edges[i].weight = edges[j].weight => PairIdLess(edges[i], edges[j])

\* the accumulator of the run of build_networks that iterates every node set in
\* sorted order
RECURSIVE RefAccBN(_, _)
RefAccBN(a, entries) ==
  IF entries = <<>> THEN a
  ELSE RefAccBN(AccumulateArticleBN(a, Head(entries),
                  [t \in Types |-> SortedNodes(ByTypeGet(Head(entries).by_type, t))]),
                Tail(entries))

\* the graph of the reference run on the input of this run: every set is
\* iterated in sorted order and the clock reads t1
RefGraph ==
  IF script = "bn"
  THEN LET es == PruneBN(RefAccBN(<<>>, index.a2e))
           ns == NodesBN(es, index.node_info, SortedNodes(UsedIds(es)))
           ed == EdgesBN(es)
       IN  [nodes |-> ns, edges |-> ed, meta |-> MetaBN(ns, ed, "t1")]
  ELSE IF acc = <<>> THEN EmptyResultSC
  ELSE LET order == SortedLabels(AllSubjects(acc))
           ns == NodesSC(acc, index.subject_refs, order)
           es == EdgesSC(acc, AscSeq({ index.ref_subjects[i].key :
                                         i \in 1..Len(index.ref_subjects) }))
       IN  [nodes |-> ns, edges |-> es, meta |-> MetaSC(acc, ns, es, order, "t1")]

\* C14: two runs on the same documents, catalog and configuration write the
\* same graph, field by field and in the same order of nodes and edges: every
\* run writes the graph of the reference run on its input
\* (build_networks, generate_subject_cooccurrence).
C14_Determinism ==
  (script \in {"bn", "sc"} /\ GraphBuilt) =>
    /\ nodes = RefGraph.nodes
    /\ edges = RefGraph.edges
    /\ meta = RefGraph.meta

\* the configuration is invalid: a negative window size, or no category pair at
\* all while only cross-type pairing is enabled
InvalidConfig ==
  \/ script = "wm" /\ args.window_size < 0
  \/ script = "bn" /\ TYPE_PAIRS = <<>> /\ ~args.no_cross_only

\* C15: with an invalid configuration the run stops before any document is
\* processed: nothing is accumulated and no graph or matrix is built or written
\* (generate_cooccurrence, build_networks).
C15_ConfigFailFast ==
  InvalidConfig =>
    /\ pos = 1
    /\ pc \notin {"serialize", "done"}
    /\ meta = <<>>
    /\ output = NoOutput

\* the records without an id or without a subject field
MalformedRecords ==
  { i \in 1..Len(input.records) :
      input.records[i].pub_id = Absent \/ input.records[i].subject = Absent }

\* what the run has counted as skipped: the loop keeps ref_subjects and
\* subject_refs, and a counter only if its state has one
SkipCount == IF "skipped" \in DOMAIN index THEN index.skipped ELSE 0

\* C16: a malformed record adds nothing to a pair weight, adds one to the skip
\* counter, and the run goes on: after the loop the weights are those of the
\* well-formed records and the skip count is the number of malformed records
\* (generate_subject_cooccurrence).
C16_SkipCounter ==
  (script = "sc" /\ Accumulated) =>
    /\ \A k \in 1..Len(acc) :
         acc[k].weight <= Cardinality({ input.records[i].pub_id :
                                          i \in (1..Len(input.records)) \ MalformedRecords })
    /\ SkipCount = Cardinality(MalformedRecords)

\* a catalog in which one person and one organization share one article more
\* than the cap
InitCap ==
  LET aids == [i \in 1..(ARTICLE_IDS_CAP + 1) |-> i]
  IN  /\ script = "bn"
      /\ pc = "index"
      /\ args = [weight_min |-> 1, top_labels |-> 2, pairs |-> <<>>, no_cross_only |-> FALSE]
      /\ input = [persons |-> <<Entity(2, "P2", aids, Absent)>>,
                  organizations |-> <<Entity(1, "O1", aids, Absent)>>,
                  events |-> <<>>, subjects |-> <<>>, locations |-> <<>>]
      /\ index = EmptyIndex
      /\ acc = <<>>
      /\ pos = 1
      /\ nodes = <<>>
      /\ edges = <<>>
      /\ meta = <<>>
      /\ output = NoOutput

SpecCap == InitCap /\ [][NextBN]_vars

\* C17: every emitted edge lists at most ARTICLE_IDS_CAP contributing documents,
\* and its weight is not cut to the length of the list
\* (build_networks, build_spatial_network, generate_subject_cooccurrence).
C17_ContributingCap ==
  (script \in {"bn", "sn", "sc"} /\ GraphBuilt) =>
    \A i \in EdgeIdx :
      /\ Len(edges[i].articleIds) <= ARTICLE_IDS_CAP
      /\ edges[i].weight >= Len(edges[i].articleIds)

\* the fields that every node and every edge of a graph must have
BaseNodeFields == {"id", "type", "label", "count", "degree", "strength", "labelPriority"}
BaseEdgeFields == {"source", "target", "type", "weight", "weightNorm", "articleIds"}

\* C18: in every graph variant every emitted node has the fields id, type,
\* label, count, degree, strength and labelPriority, and every emitted edge the
\* fields source, target, type, weight, weightNorm and the list of contributing
\* document ids; further fields are allowed.
C18_OutputSchema ==
  GraphBuilt =>
    /\ \A k \in NodeIdx : BaseNodeFields \subseteq DOMAIN nodes[k]
    /\ \A i \in EdgeIdx : BaseEdgeFields \subseteq DOMAIN edges[i]

\* C19: two values that differ only in letter case or in surrounding spaces are
\* one entity: no two emitted nodes have labels that are equal up to case
\* (generate_subject_cooccurrence).
C19_EntityIdentity ==
  (script = "sc" /\ GraphBuilt) =>
    \A a \in NodeIdx : \A b \in NodeIdx :
      Lower(nodes[a].label) = Lower(nodes[b].label) => nodes[a].id = nodes[b].id

\* the number of tokens of family f in the first n articles, and the number of
\* position pairs of f and g at most window_size apart in them
RECURSIVE TotalCount(_, _)
TotalCount(f, n) ==
  IF n = 0 THEN 0
  ELSE Cardinality(PositionSet(input.articles[n], f)) + TotalCount(f, n - 1)

RECURSIVE PairTotal(_, _, _)
PairTotal(f, g, n) ==
  IF n = 0 THEN 0
  ELSE WindowCount(input.articles[n], f, g, args.window_size) + PairTotal(f, g, n - 1)

\* C20: the result of _build_matrix_data is a square matrix over the families
\* that occur in the corpus, in alphabetical order; its diagonal holds the term
\* counts, the cell (i, j) the accumulated window count of the pair {i, j},
\* symmetrically, and max_cooccurrence is the largest cell off the diagonal,
\* 0 when there is none.
C20_MatrixShape ==
  (script = "wm" /\ pc \in {"serialize", "done"}) =>
    LET terms == meta.terms
        matrix == meta.matrix
        n == Len(terms)
        docs == Len(input.articles)
        off == { matrix[c[1]][c[2]] : c \in { d \in (1..n) \X (1..n) : d[1] # d[2] } }
    IN  /\ Range(terms) = { f \in FamilyNames : TotalCount(f, docs) > 0 }
        /\ \A i \in 1..n : \A j \in 1..n : i < j => FamilyRank(terms[i]) < FamilyRank(terms[j])
        /\ Len(matrix) = n
        /\ \A i \in 1..n :
             /\ Len(matrix[i]) = n
             /\ matrix[i][i] = TotalCount(terms[i], docs)
             /\ \A j \in (1..n) \ {i} :
                  /\ matrix[i][j] = PairTotal(terms[i], terms[j], docs)
                  /\ matrix[i][j] = matrix[j][i]
        /\ \A x \in off : x <= meta.max_cooccurrence
        /\ meta.max_cooccurrence \in off \cup {0}

\* three families occur; two of them co-occur twice, two others never
C20_Witness ==
  /\ script = "wm" /\ pc = "done"
  /\ Len(meta.terms) = 3
  /\ meta.max_cooccurrence = 2
  /\ \E i \in 1..3 : \E j \in 1..3 : i # j /\ meta.matrix[i][j] = 0
  /\ \E i \in 1..3 : meta.matrix[i][i] = 2

\* C21: find_column returns the first candidate, in list order, that is a column
\* of the data frame; when there is none it returns None if required is False
\* and raises ValueError if required is True; the data frame is as it was.
C21_FindColumn ==
  (script = "fc" /\ pc # "call") =>
    LET cands == input.candidates
        hits == { i \in 1..Len(cands) : \E c \in 1..Len(input.columns) : input.columns[c] = cands[i] }
    IN  /\ hits # {} =>
             /\ pc = "returned"
             /\ \E i \in hits : (\A j \in hits : i <= j) /\ meta.value = <<cands[i]>>
        /\ (hits = {} /\ ~input.required) => pc = "returned" /\ meta.value = <<>>
        /\ (hits = {} /\ input.required) => pc = "raised"
        /\ index.columns = input.columns

\* the first candidate is not a column, the second and the third are: the second
\* is returned
C21_Witness ==
  /\ script = "fc" /\ pc = "returned"
  /\ input.columns = <<"Title", "title">>
  /\ input.candidates = <<"missing", "title", "Title">>
  /\ meta.value = <<"title">>

\* the number of unordered pairs of distinct members of a group of k
PairsOf(k) == (k * (k - 1)) \div 2

RECURSIVE NoRepeat(_)
NoRepeat(s) ==
  IF s = <<>> THEN TRUE
  ELSE (\A i \in 1..Len(Tail(s)) : Tail(s)[i] # Head(s)) /\ NoRepeat(Tail(s))

\* C22: the same-type pairing of one document with k members makes k(k-1)/2
\* unordered pairs of distinct members: no edge joins a node to itself, no
\* document counts twice for a pair, and the weights add up to the sum of
\* k(k-1)/2 over the documents (spatial network; same-type edges of the entity
\* network under the default type pairs).
C22_SameTypePairing ==
  /\ (script = "sn" /\ pc = "accumulate" /\ Accumulated) =>
       /\ \A i \in 1..Len(acc) :
            acc[i].source # acc[i].target /\ NoRepeat(acc[i].articleIds)
       /\ SumSeq([i \in 1..Len(acc) |-> acc[i].weight])
            = SumSeq([i \in 1..Len(index.article_to_locations) |->
                        PairsOf(Cardinality(Range(index.article_to_locations[i].value)))])
  /\ (script = "bn" /\ pc = "accumulate" /\ Accumulated /\ args.pairs = <<>>) =>
       \A i \in 1..Len(acc) :
         acc[i].type[1] = acc[i].type[2] =>
           /\ acc[i].source # acc[i].target
           /\ NoRepeat(acc[i].articleIds)
           /\ acc[i].weight = Cardinality(
                { j \in 1..Len(index.a2e) :
                    \E b \in 1..Len(index.a2e[j].by_type) :
                      {acc[i].source, acc[i].target} \subseteq index.a2e[j].by_type[b].nodeset })

\* the weight of the pair (s, t) in the accumulator a, 0 when it has no record
WeightIn(a, s, t) == IF AccIndex(a, s, t) = 0 THEN 0 ELSE a[AccIndex(a, s, t)].weight

\* C23: whatever the configured list of type pairs, merging one document counts
\* each unordered pair of distinct entities of the document exactly once: the
\* weight of a pair grows by 1 when the document names both entities under an
\* enabled type pair, no pair grows by more, and no entity is paired with itself.
C23_CrossTypeOncePerDocument ==
  [][ (script = "bn" /\ pc = "accumulate" /\ pos' = pos + 1) =>
        \A k \in 1..Len(acc') :
          /\ acc'[k].source # acc'[k].target
          /\ acc'[k].weight - WeightIn(acc, acc'[k].source, acc'[k].target) \in {0, 1}
          /\ (acc'[k].weight - WeightIn(acc, acc'[k].source, acc'[k].target) = 1) =>
               /\ PairEnabled(acc'[k].source, acc'[k].target)
               /\ index.a2e[pos].key \in EntityArticles(acc'[k].source)
                                         \cap EntityArticles(acc'[k].target) ]_vars

\* the contributing list of the pair (s, t) in the accumulator a
IdsIn(a, s, t) == IF AccIndex(a, s, t) = 0 THEN <<>> ELSE a[AccIndex(a, s, t)].articleIds

\* how many times the loops of one article reach the pair (s, t): once per item
\* of TYPE_PAIRS and per (n1, n2) of the two node sets that is the pair in one
\* of its orders, and once more in the same-type loop
ContributionsOf(entry, s, t) ==
  SumSeq([i \in 1..Len(TYPE_PAIRS) |->
            Cardinality({ p \in ByTypeGet(entry.by_type, TYPE_PAIRS[i][1])
                                 \X ByTypeGet(entry.by_type, TYPE_PAIRS[i][2]) :
                            p = <<s, t>> \/ p = <<t, s>> })])
  + (IF /\ args.no_cross_only /\ s # t
        /\ \E b \in 1..Len(entry.by_type) : {s, t} \subseteq entry.by_type[b].nodeset
     THEN 1 ELSE 0)

\* C24: every contribution of a document d to a pair adds 1 to the weight of
\* the pair, and d is appended to the contributing list of the pair only when
\* the last element of the list is not d: merging d adds to each weight the
\* number of contributions of d, and puts d once at the end of the list of
\* each pair it contributes to, however many contributions it makes.
C24_AdjacentDedup ==
  [][ (script = "bn" /\ pc = "accumulate" /\ pos' = pos + 1) =>
        LET entry == index.a2e[pos]
            d == entry.key
        IN  \A k \in 1..Len(acc') :
              LET s == acc'[k].source
                  t == acc'[k].target
                  n == ContributionsOf(entry, s, t)
                  old == IdsIn(acc, s, t)
              IN  /\ acc'[k].weight = WeightIn(acc, s, t) + n
                  /\ acc'[k].articleIds =
                       IF n > 0 /\ (old = <<>> \/ old[Len(old)] # d)
                       THEN Append(old, d) ELSE old ]_vars

\* a document has contributed twice to one pair: weight 2, listed once
C24_Witness ==
  /\ script = "bn" /\ pc = "accumulate"
  /\ \E k \in 1..Len(acc) : acc[k].weight = 2 /\ Len(acc[k].articleIds) = 1

\* the nodes and edges that build_networks makes of the documents merged in the
\* order of entries, every node set iterated in sorted order
GraphOfOrder(entries) ==
  LET es == PruneBN(RefAccBN(<<>>, entries))
  IN  [nodes |-> NodesBN(es, index.node_info, SortedNodes(UsedIds(es))),
       edges |-> EdgesBN(es)]

\* C25: merging the same documents in any order gives the graph of the
\* sequential run: the same pair weights, the same contributing lists, the same
\* order of nodes and edges (build_networks).
C25_OrderIndependence ==
  (script = "bn" /\ pc = "accumulate" /\ Accumulated) =>
    \A o \in SetOrders(Range(index.a2e)) :
      /\ GraphOfOrder(o).edges = GraphOfOrder(index.a2e).edges
      /\ GraphOfOrder(o).nodes = GraphOfOrder(index.a2e).nodes

\* the stage a run is in: Extract 1, Accumulate 2, Serialize (the graph is
\* built) 3, over 4
StageRank(p) ==
  CASE p \in {"index", "load"} -> 1
    [] p = "accumulate" -> 2
    [] p = "serialize" -> 3
    [] OTHER -> 4

\* one step of a run of build_networks or generate_topic_network keeps the stages
\* in order
StageStep ==
  script \in {"bn", "tn"} =>
    /\ pc' # pc => StageRank(pc') = StageRank(pc) + 1
    /\ StageRank(pc) >= 3 => acc' = acc
    /\ (script = "bn" /\ StageRank(pc') <= 2) =>
         nodes' = <<>> /\ edges' = <<>> /\ meta' = <<>>
    /\ pc' = "done" => output' = Written

\* C26: a run goes through Extract, Accumulate, Build and Serialize in this
\* order and skips none; the accumulator is not changed once Build has started;
\* nothing is pruned, ranked or sorted into the graph before the last document
\* is merged (build_networks); and a run ends only after it has written its
\* output, so every run that starts reaches Serialize
\* (build_networks, generate_topic_network).
C26_StageOrdering == [][StageStep]_vars

\* C27: find_term_positions records the index i for a family exactly when the
\* i-th token of the text, lower-cased and without its punctuation, equals a
\* variant of the family; a token of which a variant is only a prefix
\* (radicalement for radical) is not recorded; the indexes of a family are in
\* increasing order, each one once, and a family has one entry at most.
C27_TokenMatching ==
  (script = "wm" /\ pos > 1) =>
    LET text == input.articles[pos - 1]
        tp == index.term_positions
    IN  /\ \A k \in 1..Len(tp) :
             LET ps == tp[k].positions
             IN  /\ tp[k].key \in FamilyNames
                 /\ { ps[i] : i \in 1..Len(ps) } = PositionSet(text, tp[k].key)
                 /\ \A i \in 1..Len(ps) : \A j \in 1..Len(ps) : i < j => ps[i] < ps[j]
                 /\ \A i \in 1..Len(ps) : text[ps[i] + 1] # "radicalement"
                 /\ \A l \in 1..Len(tp) : tp[l].key = tp[k].key => l = k
        /\ \A f \in FamilyNames :
             PositionSet(text, f) # {} => \E k \in 1..Len(tp) : tp[k].key = f

\* "radicalement Radical, jihad Radical,": the indexes 1 and 3 are recorded for
\* radicalisation, the index 0 is not
C27_Witness ==
  /\ script = "wm" /\ pos > 1
  /\ input.articles[pos - 1] = <<"radicalement", "Radical,", "jihad", "Radical,">>
  /\ \E k \in 1..Len(index.term_positions) :
       /\ index.term_positions[k].key = "radicalisation"
       /\ index.term_positions[k].positions = <<1, 3>>

\* C28: in the topic network the degree of every node is the number of emitted
\* edges that have it as source or target, and its strength is the sum of the
\* weights of those edges, an article that passes the filter under two topics
\* included.
C28_TopicDegreeStrength ==
  (script = "tn" /\ GraphBuilt) =>
    \A i \in NodeIdx :
      /\ nodes[i].degree = Cardinality(IncidentEdges(nodes[i].id))
      /\ nodes[i].strength[1] * 10000 = SumWeights(IncidentEdges(nodes[i].id)) * nodes[i].strength[2]

\* the configured number of top labels
TopLabelCount == IF script = "bn" THEN args.top_labels ELSE TOP_LABEL_CAP

\* the emitted node that has the i-th best labelPriority: i - 1 nodes have a
\* smaller one
RankedNode(i) ==
  { a \in NodeIdx :
      Cardinality({ b \in NodeIdx : nodes[b].labelPriority < nodes[a].labelPriority }) = i - 1 }

\* f"subject:{hash}": the written form of a subject id, to compare with the
\* strings that generate_subject_cooccurrence lists
SubjectIdString(id) ==
  CASE id.hash = "037c53a1" -> "subject:037c53a1"
    [] id.hash = "2ee6986e" -> "subject:2ee6986e"
    [] id.hash = "c75a8223" -> "subject:c75a8223"

\* C29: meta.labelPriorityTop lists the min(topLabelCount, N) emitted nodes of
\* best labelPriority, in rank order and by node id, and no other node
\* (build_networks, generate_subject_cooccurrence).
C29_LabelPriorityTop ==
  (script \in {"bn", "sc"} /\ GraphBuilt) =>
    /\ Len(meta.labelPriorityTop) = Min2(TopLabelCount, Len(nodes))
    /\ \A i \in 1..Len(meta.labelPriorityTop) :
         \E a \in RankedNode(i) :
           IF script = "sc"
           THEN meta.labelPriorityTop[i] = SubjectIdString(nodes[a].id)
           ELSE meta.labelPriorityTop[i] = nodes[a].id

\* C30: in build_networks the contributing list of every accumulated edge holds
\* each article id once at most, and is not longer than the weight of the edge;
\* the same holds of the emitted edges.
C30_NoDuplicateIds ==
  script = "bn" =>
    /\ \A k \in 1..Len(acc) :
         /\ \A i \in 1..Len(acc[k].articleIds) : \A j \in 1..Len(acc[k].articleIds) :
              acc[k].articleIds[i] = acc[k].articleIds[j] => i = j
         /\ Len(acc[k].articleIds) <= acc[k].weight
    /\ \A e \in EdgeIdx :
         /\ Cardinality(Range(edges[e].articleIds)) = Len(edges[e].articleIds)
         /\ Len(edges[e].articleIds) <= edges[e].weight

\* two articles have each contributed twice to one pair: weight 4, two ids
C30_Witness ==
  /\ script = "bn" /\ GraphBuilt
  /\ \E e \in EdgeIdx : edges[e].weight = 4 /\ edges[e].articleIds = <<1, 2>>

=============================================================================
